---- MODULE Spec2Model ----
(***************************************************************************)
(* Model of the deterministic validation core of validador-crm:            *)
(*   contract_fields_validator.py  (validar_campos_contrato)               *)
(*   contract_pipeline.py          (comparar_crm_contrato, status, pipeline)*)
(*   contract_parser.py            (extrair_dados_contrato and helpers)     *)
(*   app.py                        (_status_geral, _render_contrato)        *)
(*                                                                         *)
(* Python values are records [t, s, n]: t is the Python type ("null",      *)
(* "str", "num", "list", or "absent" for a key the dict does not hold),    *)
(* s the characters of a str (a sequence of one-character strings) and n   *)
(* the value of a number.                                                  *)
(***************************************************************************)
EXTENDS Integers, Sequences, FiniteSets, TLC

VARIABLES
    pc,               \* position of the modelled call: "inicio", then the steps done
    resultado_parser, \* input of validar_campos_contrato: [modelo, e_dict, dados]
    ordem,            \* iteration order of the set CAMPOS_NUMERICOS in this process
    validacao_campos, \* value returned by validar_campos_contrato
    excecao,          \* exception raised by the modelled call ("nenhuma" if none)
    texto_contrato,   \* argument texto_contrato / texto_bruto: a string
    dados_crm,        \* argument dados_crm: the CRM fields
    resposta,         \* what the external extraction service answers
    etapas,           \* the steps the modelled call has performed
    warnings_crm_contrato, \* value returned by comparar_crm_contrato
    resultado,        \* the dict executar_pipeline_contrato returns
    validacao_clausulas,   \* a result of validar_clausulas for the same contract
    status_crm,       \* status of the CRM validation (validar_crm)
    status_geral,     \* value returned by _status_geral
    arquivo_base,     \* the base file of the template in diretorio_base
    clausulas_separadas,  \* value returned by separar_clausulas
    arg_texto_a,  \* argument texto_a of calcular_similaridade, texto of normalizar_texto
    arg_texto_b,  \* argument texto_b of calcular_similaridade
    texto_normalizado,  \* value returned by normalizar_texto
    texto_renormalizado,  \* value returned by normalizar_texto on its own result
    sim_direta,  \* value returned by calcular_similaridade(arg_texto_a, arg_texto_b)
    sim_inversa,  \* value returned by calcular_similaridade(arg_texto_b, arg_texto_a)
    arg_texto_detector,  \* the text given to detectar_modelo_contrato
    deteccao,  \* what detectar_modelo_contrato returned
    arg_valor,  \* the value given to _to_number
    numero,  \* what _to_number returned
    content,  \* the text given to _parse_json_response
    pos,  \* where the next search for an opening brace starts (1-based)
    candidatos_tentados,  \* the balanced blocks handed to json.loads
    retorno_json,  \* what _parse_json_response returned
    caminhos_arquivos,  \* the paths given to executar_pipeline
    indice_caminho,  \* the position of the for loop of _extrair_textos
    partes_extraidas,  \* partes, the texts extracted so far
    sucessos,  \* the paths extracted
    falhas,  \* the pairs (path, reason) of the paths given up
    texto_consolidado,  \* what _extrair_textos returned as text
    chamadas  \* the services executar_pipeline called

vars ==
    << pc, resultado_parser, ordem, validacao_campos, excecao, texto_contrato,
       dados_crm, resposta, etapas, warnings_crm_contrato, resultado,
       validacao_clausulas, status_crm, status_geral, arquivo_base,
       clausulas_separadas, arg_texto_a, arg_texto_b, texto_normalizado,
       texto_renormalizado, sim_direta, sim_inversa,
       arg_texto_detector, deteccao,
       arg_valor, numero,
       content, pos, candidatos_tentados, retorno_json,
       caminhos_arquivos, indice_caminho, partes_extraidas, sucessos, falhas, texto_consolidado, chamadas >>

vars_crm_pipeline == << caminhos_arquivos, indice_caminho, partes_extraidas, sucessos, falhas, texto_consolidado, chamadas >>

vars_parse_json == << content, pos, candidatos_tentados, retorno_json >>

vars_to_number == << arg_valor, numero >>

vars_detector == << arg_texto_detector, deteccao >>

vars_similaridade ==
    << arg_texto_a, arg_texto_b, texto_normalizado, texto_renormalizado,
       sim_direta, sim_inversa >>

\* ------------------------------------------------------------------------
\* Bounds of the model
\* ------------------------------------------------------------------------
\* numbers drawn for the numeric fields range over -1 .. MaxNum
MaxNum == 6

\* ------------------------------------------------------------------------
\* Python values
\* ------------------------------------------------------------------------
Nulo == [t |-> "null", s |-> <<>>, n |-> 0]

Ausente == [t |-> "absent", s |-> <<>>, n |-> 0]

Lista == [t |-> "list", s |-> <<>>, n |-> 0]

Str(x) == [t |-> "str", s |-> x, n |-> 0]

Num(k) == [t |-> "num", s |-> <<>>, n |-> k]

\* an int beyond the range of a double, such as 10**400
IntGrande == [t |-> "int_grande", s |-> <<>>, n |-> 0]

\* dict.get(key): None when the key is absent
Get(d, campo) == IF d[campo].t = "absent" THEN Nulo ELSE d[campo]

\* str.strip() removes these characters from both ends
IsSpace(c) == c \in {" ", "\t", "\n"}

\* str.lower() on the characters the model uses: the letters A-Z and Ã
Lower(c) ==
    CASE c = "A" -> "a"
      [] c = "B" -> "b"
      [] c = "C" -> "c"
      [] c = "D" -> "d"
      [] c = "E" -> "e"
      [] c = "F" -> "f"
      [] c = "G" -> "g"
      [] c = "H" -> "h"
      [] c = "I" -> "i"
      [] c = "J" -> "j"
      [] c = "K" -> "k"
      [] c = "L" -> "l"
      [] c = "M" -> "m"
      [] c = "N" -> "n"
      [] c = "O" -> "o"
      [] c = "P" -> "p"
      [] c = "Q" -> "q"
      [] c = "R" -> "r"
      [] c = "S" -> "s"
      [] c = "T" -> "t"
      [] c = "U" -> "u"
      [] c = "V" -> "v"
      [] c = "W" -> "w"
      [] c = "X" -> "x"
      [] c = "Y" -> "y"
      [] c = "Z" -> "z"
      [] c = "Ã" -> "ã"
      [] OTHER -> c

LowerSeq(x) == [i \in 1..Len(x) |-> Lower(x[i])]

\* sub in x (Python substring test)
Contains(sub, x) ==
    \E i \in 0..(Len(x) - Len(sub)) :
        \A j \in 1..Len(sub) : x[i + j] = sub[j]

\* ------------------------------------------------------------------------
\* contract_fields_validator.py
\* ------------------------------------------------------------------------
CamposContrato ==
    << "nome_escola", "razao_social", "cnpj", "email_login",
       "email_financeiro", "whatsapp", "alunos_totais", "alunos_gamificados",
       "implantacao", "assinatura", "inicio_implantacao", "inicio_cobranca",
       "cards_enviados" >>

\* the templates that have a required-field list
ModelosConhecidos == {"novo", "antigo_v13"}

CAMPOS_OBRIGATORIOS(modelo) == CamposContrato

CAMPOS_NUMERICOS == {"alunos_totais", "alunos_gamificados", "implantacao"}

PLACEHOLDERS ==
    { <<"{", "{">>, <<"}", "}">>, <<"_", "_", "_", "_">>,
      <<"x", "x", "x", "x", "x">> }

LIMIAR_ALUNOS_BAIXO == 5

LIMIAR_IMPLANTACAO_ZERO == 0

e_vazio(valor) ==
    \/ valor.t = "null"
    \/ valor.t = "str" /\ \A i \in 1..Len(valor.s) : IsSpace(valor.s[i])

\* contem_placeholder comparing the value as written, without lower()
contem_placeholder_sem_lower(valor) ==
    /\ valor.t = "str"
    /\ \E ph \in PLACEHOLDERS : Contains(ph, valor.s)

contem_placeholder(valor) ==
    /\ valor.t = "str"
    /\ \E ph \in PLACEHOLDERS : Contains(LowerSeq(ph), LowerSeq(valor.s))

\* a message of erros_criticos or warnings: its kind and the field it cites
Msg(tipo, campo) == [tipo |-> tipo, campo |-> campo]

RECURSIVE validar_presenca_de(_, _, _)
validar_presenca_de(dados, campos, i) ==
    IF i > Len(campos) THEN <<>>
    ELSE LET campo == campos[i]
             valor == Get(dados, campo)
             aqui  == IF e_vazio(valor) THEN << Msg("ausente", campo) >>
                      ELSE IF contem_placeholder(valor)
                           THEN << Msg("placeholder", campo) >>
                           ELSE <<>>
         IN  aqui \o validar_presenca_de(dados, campos, i + 1)

\* validar_presenca checking the optional field saldo_loja as well
validar_presenca_com_opcional(dados, campos_obrigatorios) ==
    validar_presenca_de(dados, campos_obrigatorios \o << "saldo_loja" >>, 1)

\* the errors _validar_presenca appends, in order
validar_presenca(dados, campos_obrigatorios) ==
    validar_presenca_de(dados, campos_obrigatorios, 1)

\* the loop body of _validar_numericos for one field: the error it appends
erro_numerico(dados, campo) ==
    LET valor == Get(dados, campo)
    IN  IF valor.t = "null" THEN <<>>
        ELSE IF valor.t # "num" THEN << Msg("nao_numerico", campo) >>
        ELSE IF valor.n < 0 THEN << Msg("negativo", campo) >>
        ELSE <<>>

\* valor_numerico without the exclusion of negative numbers
valor_numerico_com_negativos(dados, campo) ==
    LET valor == Get(dados, campo)
    IN  IF valor.t = "num"
        THEN [def |-> TRUE, n |-> valor.n]
        ELSE [def |-> FALSE, n |-> 0]

\* valores[campo]: [def |-> FALSE] stands for None
valor_numerico(dados, campo) ==
    LET valor == Get(dados, campo)
    IN  IF valor.t = "num" /\ valor.n >= 0
        THEN [def |-> TRUE, n |-> valor.n]
        ELSE [def |-> FALSE, n |-> 0]

RECURSIVE erros_numericos_de(_, _, _)
erros_numericos_de(dados, ord, i) ==
    IF i > Len(ord) THEN <<>>
    ELSE erro_numerico(dados, ord[i]) \o erros_numericos_de(dados, ord, i + 1)

\* erro_gamificados rejecting equality as well
erro_gamificados_maior_ou_igual(gamificados, totais) ==
    IF gamificados.def /\ totais.def /\ gamificados.n >= totais.n
    THEN << [tipo |-> "gamificados_maior", campo |-> "alunos_gamificados"] >>
    ELSE <<>>

erro_gamificados(gamificados, totais) ==
    IF gamificados.def /\ totais.def /\ gamificados.n > totais.n
    THEN << Msg("gamificados_maior", "alunos_gamificados") >>
    ELSE <<>>

\* warning_alunos leaving the threshold itself out
warning_alunos_estrito(totais) ==
    IF totais.def /\ totais.n < LIMIAR_ALUNOS_BAIXO
    THEN << Msg("alunos_baixo", "alunos_totais") >>
    ELSE <<>>

warning_alunos(totais) ==
    IF totais.def /\ totais.n <= LIMIAR_ALUNOS_BAIXO
    THEN << Msg("alunos_baixo", "alunos_totais") >>
    ELSE <<>>

warning_implantacao(implantacao) ==
    IF implantacao.def /\ implantacao.n = LIMIAR_IMPLANTACAO_ZERO
    THEN << Msg("implantacao_zerada", "implantacao") >>
    ELSE <<>>

\* what _validar_numericos appends to erros and to warnings; ord is the
\* order in which the set CAMPOS_NUMERICOS is iterated
validar_numericos(dados, ord) ==
    LET gamificados == valor_numerico(dados, "alunos_gamificados")
        totais      == valor_numerico(dados, "alunos_totais")
        implantacao == valor_numerico(dados, "implantacao")
    IN  [ erros    |-> erros_numericos_de(dados, ord, 1)
                       \o erro_gamificados(gamificados, totais),
          warnings |-> warning_alunos(totais)
                       \o warning_implantacao(implantacao) ]

SemValidacao == [valido |-> FALSE, erros_criticos |-> <<>>, warnings |-> <<>>]

\* excecao_campos without the test that the template has a field list
excecao_campos_sem_modelo(rp) ==
    IF rp.modelo.t # "str" \/ rp.modelo.nome = "" THEN "ValueError"
    ELSE IF ~rp.e_dict THEN "ValueError"
    ELSE "nenhuma"

\* the exception validar_campos_contrato raises on its input, or "nenhuma"
excecao_campos(rp) ==
    IF rp.modelo.t # "str" \/ rp.modelo.nome = "" THEN "ValueError"
    ELSE IF ~rp.e_dict THEN "ValueError"
    ELSE IF rp.modelo.nome \notin ModelosConhecidos THEN "ValueError"
    ELSE "nenhuma"

\* montar_validacao letting warnings invalidate the result
montar_validacao_com_warnings(erros, warnings) ==
    [ valido         |-> Len(erros) = 0 /\ Len(warnings) = 0,
      erros_criticos |-> erros,
      warnings       |-> warnings ]

montar_validacao(erros, warnings) ==
    [ valido         |-> Len(erros) = 0,
      erros_criticos |-> erros,
      warnings       |-> warnings ]

\* the dict validar_campos_contrato returns when it raises nothing
validar_campos_contrato(rp, ord) ==
    LET presenca  == validar_presenca(rp.dados, CAMPOS_OBRIGATORIOS(rp.modelo.nome))
        numericos == validar_numericos(rp.dados, ord)
    IN  montar_validacao(presenca \o numericos.erros, numericos.warnings)

\* ------------------------------------------------------------------------
\* Strings (sequences of characters) as Python handles them
\* ------------------------------------------------------------------------
RECURSIVE LStrip(_)
LStrip(x) ==
    IF x = <<>> THEN <<>>
    ELSE IF IsSpace(Head(x)) THEN LStrip(Tail(x)) ELSE x

RECURSIVE RStrip(_)
RStrip(x) ==
    IF x = <<>> THEN <<>>
    ELSE IF IsSpace(x[Len(x)]) THEN RStrip(SubSeq(x, 1, Len(x) - 1)) ELSE x

\* str.strip()
Strip(x) == RStrip(LStrip(x))

\* str.replace(sub, ""): leftmost occurrences, not overlapping
RECURSIVE RemoveSub(_, _)
RemoveSub(x, sub) ==
    IF Len(x) < Len(sub) THEN x
    ELSE IF SubSeq(x, 1, Len(sub)) = sub
         THEN RemoveSub(SubSeq(x, Len(sub) + 1, Len(x)), sub)
         ELSE <<Head(x)>> \o RemoveSub(Tail(x), sub)

\* str.replace(a, b) for single characters
ReplaceChar(x, a, b) == [i \in 1..Len(x) |-> IF x[i] = a THEN b ELSE x[i]]

\* str.split(sep) for a single character
RECURSIVE Split(_, _)
Split(x, sep) ==
    IF \A i \in 1..Len(x) : x[i] # sep THEN << x >>
    ELSE LET k == CHOOSE i \in 1..Len(x) :
                      x[i] = sep /\ \A j \in 1..(i - 1) : x[j] # sep
         IN  << SubSeq(x, 1, k - 1) >> \o Split(SubSeq(x, k + 1, Len(x)), sep)

Digitos == {"0", "1", "2", "3", "4", "5", "6", "7", "8", "9"}

DigitVal(c) ==
    CASE c = "0" -> 0 [] c = "1" -> 1 [] c = "2" -> 2 [] c = "3" -> 3
      [] c = "4" -> 4 [] c = "5" -> 5 [] c = "6" -> 6 [] c = "7" -> 7
      [] c = "8" -> 8 [] c = "9" -> 9

RECURSIVE DigitsVal(_)
DigitsVal(x) ==
    IF x = <<>> THEN 0
    ELSE DigitsVal(SubSeq(x, 1, Len(x) - 1)) * 10 + DigitVal(x[Len(x)])

RECURSIVE Pow10(_)
Pow10(k) == IF k = 0 THEN 1 ELSE 10 * Pow10(k - 1)

\* a number num/den, or None (def = FALSE)
Nenhum == [def |-> FALSE, num |-> 0, den |-> 1]

Fracao(num, den) == [def |-> TRUE, num |-> num, den |-> den]

\* a == b for two numbers
NumIgual(a, b) == a.num * b.den = b.num * a.den

\* float(texto) on strings of digits, ".", a sign and other characters:
\* surrounding whitespace is dropped, then an optional sign, digits with at
\* most one ".", and at least one digit; anything else raises ValueError
\* (None here). Exponents, "inf", "nan" and "_" are outside the alphabet
\* the model draws its strings from.
ParseFloat(texto) ==
    LET x      == Strip(texto)
        sinal  == x # <<>> /\ Head(x) \in {"-", "+"}
        corpo  == IF sinal THEN Tail(x) ELSE x
        partes == Split(corpo, ".")
        inteiro == partes[1]
        decimal == IF Len(partes) = 2 THEN partes[2] ELSE <<>>
        valor  == DigitsVal(inteiro \o decimal)
    IN  IF /\ Len(partes) <= 2
           /\ \A i \in 1..Len(inteiro) : inteiro[i] \in Digitos
           /\ \A i \in 1..Len(decimal) : decimal[i] \in Digitos
           /\ Len(inteiro) + Len(decimal) >= 1
        THEN Fracao(IF sinal /\ Head(x) = "-" THEN 0 - valor ELSE valor,
                    Pow10(Len(decimal)))
        ELSE Nenhum

\* ------------------------------------------------------------------------
\* contract_pipeline.py: reconciliation and status
\* ------------------------------------------------------------------------
\* the text _to_number hands to float()
texto_numerico(s) ==
    LET t1 == Strip(s)
        t2 == Strip(RemoveSub(t1, <<"R", "$">>))
        t3 == RemoveSub(t2, <<" ">>)
        partes == Split(t3, ".")
    IN  IF \E i \in 1..Len(t3) : t3[i] = ","
        THEN ReplaceChar(RemoveSub(t3, <<".">>), ",", ".")
        ELSE IF /\ \E i \in 1..Len(t3) : t3[i] = "."
                /\ \A k \in 2..Len(partes) : Len(partes[k]) = 3
             THEN RemoveSub(t3, <<".">>)
             ELSE t3

\* the exception _to_number raises: float(valor) on an int too large for a
\* double raises OverflowError; float(texto) is inside try/except ValueError
excecao_to_number(valor) ==
    IF valor.t = "int_grande" THEN "OverflowError" ELSE "nenhuma"

to_number(valor) ==
    IF valor.t = "null" THEN Nenhum
    ELSE IF valor.t = "num" THEN Fracao(valor.n, 1)
    ELSE IF valor.t # "str" THEN Nenhum
    ELSE ParseFloat(texto_numerico(valor.s))

\* the pairs compared: CRM field, contract field
Comparacoes ==
    << [campo_crm |-> "numero_alunos",     campo_contrato |-> "alunos_totais"],
       [campo_crm |-> "valor_implantacao", campo_contrato |-> "implantacao"] >>

\* the comparison warning also when one side is no number
comparar_par_sem_pular(par, dados_crm_, dados_contrato) ==
    LET num_crm      == to_number(Get(dados_crm_, par.campo_crm))
        num_contrato == to_number(Get(dados_contrato, par.campo_contrato))
    IN  IF ~num_crm.def /\ ~num_contrato.def THEN <<>>
        ELSE IF ~num_crm.def \/ ~num_contrato.def \/ ~NumIgual(num_crm, num_contrato)
             THEN << Msg("divergente", par.campo_crm) >>
             ELSE <<>>

\* the warning one comparison appends
comparar_par(par, dados_crm_, dados_contrato) ==
    LET num_crm      == to_number(Get(dados_crm_, par.campo_crm))
        num_contrato == to_number(Get(dados_contrato, par.campo_contrato))
    IN  IF ~num_crm.def \/ ~num_contrato.def THEN <<>>
        ELSE IF ~NumIgual(num_crm, num_contrato)
             THEN << Msg("divergente", par.campo_crm) >>
             ELSE <<>>

\* the exception comparar_crm_contrato raises: the first one of its four
\* calls of _to_number
excecao_comparar_crm_contrato(dados_crm_, dados_contrato) ==
    LET valores == << Get(dados_crm_, Comparacoes[1].campo_crm),
                      Get(dados_contrato, Comparacoes[1].campo_contrato),
                      Get(dados_crm_, Comparacoes[2].campo_crm),
                      Get(dados_contrato, Comparacoes[2].campo_contrato) >>
    IN  IF \E i \in 1..4 : excecao_to_number(valores[i]) # "nenhuma"
        THEN "OverflowError"
        ELSE "nenhuma"

comparar_crm_contrato(dados_crm_, dados_contrato) ==
    comparar_par(Comparacoes[1], dados_crm_, dados_contrato)
    \o comparar_par(Comparacoes[2], dados_crm_, dados_contrato)

\* determinar_status_final testing the warnings before the field validation
determinar_status_final_warnings_primeiro(validacao_campos_, warnings_crm_contrato_) ==
    IF warnings_crm_contrato_ # <<>> THEN "revisao_manual"
    ELSE IF ~validacao_campos_.valido THEN "invalido"
    ELSE "valido"

determinar_status_final(validacao_campos_, warnings_crm_contrato_) ==
    IF ~validacao_campos_.valido THEN "invalido"
    ELSE IF warnings_crm_contrato_ # <<>> THEN "revisao_manual"
    ELSE "valido"

\* the dict executar_pipeline_contrato returns
montar_resultado(dados_extraidos, validacao_campos_, warnings_crm_contrato_) ==
    [ dados_extraidos       |-> dados_extraidos,
      validacao_campos      |-> validacao_campos_,
      warnings_crm_contrato |-> warnings_crm_contrato_,
      status_final          |->
          determinar_status_final(validacao_campos_, warnings_crm_contrato_) ]

\* ------------------------------------------------------------------------
\* app.py: overall status
\* ------------------------------------------------------------------------
\* status_geral_de without the test of the CRM status
status_geral_de_sem_crm(status_crm_, status_contrato) ==
    IF status_contrato = "invalido" THEN "invalido"
    ELSE IF status_contrato = "revisao_manual" THEN "revisao_manual"
    ELSE "valido"

status_geral_de(status_crm_, status_contrato) ==
    IF status_crm_ = "invalido" THEN "invalido"
    ELSE IF status_contrato = "invalido" THEN "invalido"
    ELSE IF status_contrato = "revisao_manual" THEN "revisao_manual"
    ELSE "valido"

\* ------------------------------------------------------------------------
\* contract_parser.py: the extraction step
\* ------------------------------------------------------------------------
\* The service's answer is [tipo, bloco, tem_dados, dados_e_dict, dados]:
\*   tipo  "falha_api"    the call raises anthropic.APIError
\*         "sem_conteudo" the message has no content block
\*         "texto"        the message carries a text
\*   bloco "nenhum"   the text holds no brace-balanced block
\*         "invalido" it holds balanced blocks, none of them valid JSON
\*         "objeto"   its first valid block is an object, whose key "dados"
\*                    exists (tem_dados), is a dict (dados_e_dict) and
\*                    holds the fields dados
\* CAMPOS_DADOS of contract_parser.py: the keys of an extracted record
CAMPOS_DADOS ==
    { CamposContrato[i] : i \in 1..Len(CamposContrato) }
    \cup {"desconto_primeiro_ano", "saldo_loja", "ia"}

SemParser == [modelo |-> [t |-> "null", nome |-> ""], e_dict |-> FALSE, dados |-> <<>>]

\* texto_vazio without the strip
texto_vazio_sem_strip(texto) == texto = <<>>

\* not texto or not texto.strip()
texto_vazio(texto) == texto = <<>> \/ Strip(texto) = <<>>

\* excecao_api re-raising the failure as the input-error kind
excecao_api_como_entrada(resp) ==
    IF resp.tipo = "falha_api" THEN "ValueError" ELSE "nenhuma"

\* the exception of client.messages.create, as extrair_dados_contrato
\* re-raises it
excecao_api(resp) ==
    IF resp.tipo = "falha_api" THEN "RuntimeError" ELSE "nenhuma"

\* message.content[0].text
excecao_conteudo(resp) ==
    IF resp.tipo = "sem_conteudo" THEN "IndexError" ELSE "nenhuma"

\* _parse_json_response: the first valid block, or ValueError
excecao_parse_json(resp) ==
    IF resp.bloco = "objeto" THEN "nenhuma" ELSE "ValueError"

\* CAMPOS_NUMERICOS of contract_parser.py
CAMPOS_NUMERICOS_PARSER == {"implantacao", "alunos_totais", "alunos_gamificados"}

tipo_invalido(campo, valor) ==
    /\ valor.t # "null"
    /\ IF campo \in CAMPOS_NUMERICOS_PARSER
       THEN valor.t # "num"
       ELSE valor.t = "list"

\* _validar_estrutura: ValueError or nothing
excecao_estrutura(resp) ==
    IF ~resp.tem_dados THEN "ValueError"
    ELSE IF ~resp.dados_e_dict THEN "ValueError"
    ELSE IF \E c \in CAMPOS_DADOS : resp.dados[c].t = "absent" THEN "ValueError"
    ELSE IF \E c \in CAMPOS_DADOS : tipo_invalido(c, resp.dados[c]) THEN "ValueError"
    ELSE "nenhuma"

\* _garantir_campos: the model is injected, every field is already there
garantir_campos(resp, modelo) ==
    [ modelo |-> modelo, e_dict |-> TRUE,
      dados  |-> [c \in CAMPOS_DADOS |-> Get(resp.dados, c)] ]

Levanta(exc, feitas) == [exc |-> exc, ret |-> SemParser, etapas |-> feitas]

\* extrair_dados_contrato(texto_bruto, modelo_detectado): the exception it
\* raises, the dict it returns and the steps it went through
extrair_dados_contrato(texto_bruto, modelo_detectado, resp) ==
    IF texto_vazio(texto_bruto) THEN Levanta("ValueError", {})
    ELSE IF excecao_api(resp) # "nenhuma"
         THEN Levanta(excecao_api(resp), {"api"})
    ELSE IF excecao_conteudo(resp) # "nenhuma"
         THEN Levanta(excecao_conteudo(resp), {"api"})
    ELSE IF excecao_parse_json(resp) # "nenhuma"
         THEN Levanta(excecao_parse_json(resp), {"api", "parse"})
    ELSE IF excecao_estrutura(resp) # "nenhuma"
         THEN Levanta(excecao_estrutura(resp), {"api", "parse", "estrutura"})
    ELSE [ exc |-> "nenhuma",
           ret |-> garantir_campos(resp, modelo_detectado),
           etapas |-> {"api", "parse", "estrutura"} ]

\* ------------------------------------------------------------------------
\* contract_pipeline.py: executar_pipeline_contrato
\* ------------------------------------------------------------------------
\* the parameters of extrair_dados_contrato that have no default
ParametrosObrigatorios == {"texto_bruto", "modelo_detectado"}

\* the keyword arguments executar_pipeline_contrato passes to it
ArgumentosPassados == {"texto_bruto", "api_key"}

\* the call of lines 197-200: Python raises TypeError before the body runs
\* when a parameter without default gets no argument
chamar_extrair(texto, resp) ==
    IF ParametrosObrigatorios \subseteq ArgumentosPassados
    THEN extrair_dados_contrato(texto, [t |-> "null", nome |-> ""], resp)
    ELSE Levanta("TypeError", {})

SemResultado ==
    [ dados_extraidos       |-> <<>>,
      validacao_campos      |-> SemValidacao,
      warnings_crm_contrato |-> <<>>,
      status_final          |-> "" ]

\* the template name injected for the field validation (line 206)
ModeloInjetado == [t |-> "str", nome |-> "comercial"]

\* executar_pipeline_contrato(texto_contrato, dados_crm): the exception it
\* raises, the dict it returns and the steps it went through
executar_pipeline_contrato(texto, crm, resp, ord) ==
    IF texto_vazio(texto)
    THEN [exc |-> "ValueError", ret |-> SemResultado, etapas |-> {}]
    ELSE
    LET extracao == chamar_extrair(texto, resp)
        para_validacao == [extracao.ret EXCEPT !.modelo = ModeloInjetado]
    IN  IF extracao.exc # "nenhuma"
        THEN [exc |-> extracao.exc, ret |-> SemResultado, etapas |-> extracao.etapas]
        ELSE IF excecao_campos(para_validacao) # "nenhuma"
        THEN [ exc |-> excecao_campos(para_validacao), ret |-> SemResultado,
               etapas |-> extracao.etapas \cup {"campos"} ]
        ELSE [ exc |-> "nenhuma",
               ret |-> montar_resultado(
                          extracao.ret.dados,
                          validar_campos_contrato(para_validacao, ord),
                          comparar_crm_contrato(crm, extracao.ret.dados)),
               etapas |-> extracao.etapas \cup {"campos", "comparacao", "status"} ]

\* ------------------------------------------------------------------------
\* contract_clause_validator.py: segmentation and normalisation
\* ------------------------------------------------------------------------
\* the templates that have a base file
ARQUIVOS_BASE == {"novo", "antigo_v13"}

\* the character classes of PADRAO_CLAUSULA: [IVXLCDM], [A-Z], \d is Digitos
Romanos == {"I", "V", "X", "L", "C", "D", "M"}

Maiusculas ==
    { "A", "B", "C", "D", "E", "F", "G", "H", "I", "J", "K", "L", "M", "N",
      "O", "P", "Q", "R", "S", "T", "U", "V", "W", "X", "Y", "Z" }

\* texto[p], or "" beyond the end of the text
Car(texto, p) == IF p >= 1 /\ p <= Len(texto) THEN texto[p] ELSE ""

\* re.sub(r"\s+", " ", x) from position i on
RECURSIVE colapsar_espacos(_, _)
colapsar_espacos(x, i) ==
    IF i > Len(x) THEN <<>>
    ELSE IF ~IsSpace(x[i]) THEN << x[i] >> \o colapsar_espacos(x, i + 1)
    ELSE IF i > 1 /\ IsSpace(x[i - 1]) THEN colapsar_espacos(x, i + 1)
    ELSE << " " >> \o colapsar_espacos(x, i + 1)

\* normalizar_texto without the final strip
normalizar_texto_sem_strip(texto) == colapsar_espacos(LowerSeq(texto), 1)

normalizar_texto(texto) == Strip(colapsar_espacos(LowerSeq(texto), 1))

\* the position after the longest run of characters of classe from p on
RECURSIVE fim_da_sequencia(_, _, _)
fim_da_sequencia(texto, p, classe) ==
    IF Car(texto, p) \in classe THEN fim_da_sequencia(texto, p + 1, classe) ELSE p

\* the position after (?:\.\d+)* matched greedily from p on
RECURSIVE fim_do_caminho(_, _)
fim_do_caminho(texto, p) ==
    IF Car(texto, p) = "." /\ Car(texto, p + 1) \in Digitos
    THEN fim_do_caminho(texto, fim_da_sequencia(texto, p + 1, Digitos))
    ELSE p

\* the three alternatives of group 1 tried in order at p, each followed by
\* \s: the position of the \s, or 0 when no alternative matches. A shorter
\* repetition is never followed by "." or \s, so backtracking adds no match.
romano_em(texto, p) ==
    LET q == fim_da_sequencia(texto, p, Romanos)
    IN  IF q > p /\ Car(texto, q) = "." /\ IsSpace(Car(texto, q + 1))
        THEN q + 1 ELSE 0

letra_em(texto, p) ==
    IF Car(texto, p) \in Maiusculas /\ Car(texto, p + 1) = "."
                                    /\ IsSpace(Car(texto, p + 2))
    THEN p + 2 ELSE 0

numerico_em(texto, p) ==
    LET d == fim_da_sequencia(texto, p, Digitos)
        c == fim_do_caminho(texto, d)
    IN  IF d = p THEN 0
        ELSE IF Car(texto, c) = "." /\ IsSpace(Car(texto, c + 1)) THEN c + 1
        ELSE IF IsSpace(Car(texto, c)) THEN c
        ELSE 0

grupo_em(texto, p) ==
    IF romano_em(texto, p) # 0 THEN romano_em(texto, p)
    ELSE IF letra_em(texto, p) # 0 THEN letra_em(texto, p)
    ELSE numerico_em(texto, p)

\* a match object: texto[inicio..fim] is the match, texto[grupo..fim-1] its
\* group 1; fim = 0 stands for no match
Casamento(inicio, grupo, fim) == [inicio |-> inicio, grupo |-> grupo, fim |-> fim]

\* casar_padrao taking a marker anywhere in a line
casar_padrao_sem_ancora(texto, p) ==
    IF grupo_em(texto, p) # 0
    THEN Casamento(p, p, grupo_em(texto, p))
    ELSE Casamento(p, p, 0)

\* PADRAO_CLAUSULA matched at p: (?:^|\n) tries ^ (MULTILINE) first, then \n
casar_padrao(texto, p) ==
    IF (p = 1 \/ Car(texto, p - 1) = "\n") /\ grupo_em(texto, p) # 0
    THEN Casamento(p, p, grupo_em(texto, p))
    ELSE IF Car(texto, p) = "\n" /\ grupo_em(texto, p + 1) # 0
    THEN Casamento(p, p + 1, grupo_em(texto, p + 1))
    ELSE Casamento(p, p, 0)

\* list(PADRAO_CLAUSULA.finditer(texto)): the matches from p on, left to
\* right, each search starting where the previous match ended
RECURSIVE finditer(_, _)
finditer(texto, p) ==
    IF p > Len(texto) THEN <<>>
    ELSE IF casar_padrao(texto, p).fim # 0
         THEN << casar_padrao(texto, p) >> \o finditer(texto, casar_padrao(texto, p).fim + 1)
         ELSE finditer(texto, p + 1)

\* str.rstrip(".")
RECURSIVE rstrip_ponto(_)
rstrip_ponto(x) ==
    IF x # <<>> /\ x[Len(x)] = "." THEN rstrip_ponto(SubSeq(x, 1, Len(x) - 1)) ELSE x

\* a dict as the list of its items in insertion order
Item(marcador, conteudo) == [marcador |-> marcador, conteudo |-> conteudo]

Chaves(d) == { d[i].marcador : i \in 1..Len(d) }

Valor(d, marcador) == d[CHOOSE i \in 1..Len(d) : d[i].marcador = marcador].conteudo

\* atribuir leaving the content of a known key as it is
atribuir_so_novos(d, marcador, conteudo) ==
    IF marcador \in Chaves(d) THEN d ELSE Append(d, Item(marcador, conteudo))

\* d[marcador] = conteudo: a new key goes last, a known key keeps its place
atribuir(d, marcador, conteudo) ==
    IF marcador \in Chaves(d)
    THEN [i \in 1..Len(d) |-> IF d[i].marcador = marcador
                              THEN Item(marcador, conteudo) ELSE d[i]]
    ELSE Append(d, Item(marcador, conteudo))

\* the loop of separar_clausulas from match i on
RECURSIVE separar_de(_, _, _, _)
separar_de(texto, matches, i, d) ==
    IF i > Len(matches) THEN d
    ELSE LET marcador == rstrip_ponto(SubSeq(texto, matches[i].grupo, matches[i].fim - 1))
             inicio   == matches[i].fim + 1
             fim      == IF i + 1 <= Len(matches) THEN matches[i + 1].inicio - 1
                         ELSE Len(texto)
         IN  separar_de(texto, matches, i + 1,
                        atribuir(d, marcador, normalizar_texto(SubSeq(texto, inicio, fim))))

separar_clausulas(texto) == separar_de(texto, finditer(texto, 1), 1, <<>>)

\* ------------------------------------------------------------------------
\* contract_clause_validator.py: similarity (difflib.SequenceMatcher)
\* ------------------------------------------------------------------------
\* positions are Python's: a[i] of the source is a[i + 1] here, and a range
\* alo..ahi is half open

\* the elements difflib drops from its index of b (autojunk): those that
\* occur more than len(b) // 100 + 1 times in a b of 200 elements or more
populares(b) ==
    IF Len(b) >= 200
    THEN LET vezes(c) == Cardinality({ j \in 1..Len(b) : b[j] = c })
         IN  { b[j] : j \in { k \in 1..Len(b) : vezes(b[k]) > (Len(b) \div 100) + 1 } }
    ELSE {}

\* the length of the run of equal, indexed elements that starts at a[i], b[j]
RECURSIVE corrida(_, _, _, _, _, _, _)
corrida(a, b, i, j, ahi, bhi, pop) ==
    IF i < ahi /\ j < bhi /\ a[i + 1] = b[j + 1] /\ b[j + 1] \notin pop
    THEN 1 + corrida(a, b, i + 1, j + 1, ahi, bhi, pop)
    ELSE 0

Bloco(i, j, k) == [i |-> i, j |-> j, k |-> k]

\* the block the double loop of find_longest_match ends with: a longest run
\* in range, of those the one that starts earliest in a, of those the one
\* that starts earliest in b; (alo, blo, 0) when nothing matches
melhor_bloco(a, b, alo, ahi, blo, bhi, pop) ==
    LET corridas == { Bloco(i, j, corrida(a, b, i, j, ahi, bhi, pop)) :
                        i \in alo..(ahi - 1), j \in blo..(bhi - 1) }
        tamanhos == { c.k : c \in corridas }
        maior    == CHOOSE k \in tamanhos : \A x \in tamanhos : x <= k
        maiores  == { c \in corridas : c.k = maior }
        primeiro == CHOOSE c \in maiores :
                        \A x \in maiores : c.i < x.i \/ (c.i = x.i /\ c.j <= x.j)
    IN  IF corridas = {} \/ maior = 0 THEN Bloco(alo, blo, 0) ELSE primeiro

\* the block grown over equal elements before it and after it
RECURSIVE estender_atras(_, _, _, _, _)
estender_atras(a, b, m, alo, blo) ==
    IF m.i > alo /\ m.j > blo /\ a[m.i] = b[m.j]
    THEN estender_atras(a, b, Bloco(m.i - 1, m.j - 1, m.k + 1), alo, blo)
    ELSE m

RECURSIVE estender_frente(_, _, _, _, _)
estender_frente(a, b, m, ahi, bhi) ==
    IF m.i + m.k < ahi /\ m.j + m.k < bhi /\ a[m.i + m.k + 1] = b[m.j + m.k + 1]
    THEN estender_frente(a, b, Bloco(m.i, m.j, m.k + 1), ahi, bhi)
    ELSE m

\* SequenceMatcher.find_longest_match(alo, ahi, blo, bhi) with no junk test
find_longest_match(a, b, alo, ahi, blo, bhi, pop) ==
    estender_frente(a, b,
        estender_atras(a, b,
            melhor_bloco(a, b, alo, ahi, blo, bhi, pop),
            alo, blo),
        ahi, bhi)

\* the total size of get_matching_blocks(): the longest block, then the
\* blocks to its left and to its right
RECURSIVE tamanho_dos_blocos(_, _, _, _, _, _, _)
tamanho_dos_blocos(a, b, alo, ahi, blo, bhi, pop) ==
    LET m == find_longest_match(a, b, alo, ahi, blo, bhi, pop)
    IN  IF m.k = 0 THEN 0
        ELSE m.k
             + (IF alo < m.i /\ blo < m.j
                THEN tamanho_dos_blocos(a, b, alo, m.i, blo, m.j, pop) ELSE 0)
             + (IF m.i + m.k < ahi /\ m.j + m.k < bhi
                THEN tamanho_dos_blocos(a, b, m.i + m.k, ahi, m.j + m.k, bhi, pop)
                ELSE 0)

\* a ratio num / den, den > 0
Razao(num, den) == [num |-> num, den |-> den]

\* ratio giving 0.0 for two empty sequences
ratio_vazio_zero(a, b) ==
    IF Len(a) + Len(b) = 0 THEN [num |-> 0, den |-> 1]
    ELSE [num |-> 2 * tamanho_dos_blocos(a, b, 0, Len(a), 0, Len(b), populares(b)),
          den |-> Len(a) + Len(b)]

\* SequenceMatcher(None, a, b).ratio() = 2.0 * matches / (len(a) + len(b)),
\* 1.0 for two empty sequences
ratio(a, b) ==
    IF Len(a) + Len(b) = 0 THEN Razao(1, 1)
    ELSE Razao(2 * tamanho_dos_blocos(a, b, 0, Len(a), 0, Len(b), populares(b)),
               Len(a) + Len(b))

calcular_similaridade(texto_a, texto_b) ==
    ratio(normalizar_texto(texto_a), normalizar_texto(texto_b))

SIMILARIDADE_MINIMA == Razao(97, 100)

\* similaridade <= SIMILARIDADE_MINIMA
menor_ou_igual_ao_minimo(similaridade) ==
    similaridade.num * SIMILARIDADE_MINIMA.den <= SIMILARIDADE_MINIMA.num * similaridade.den

\* similaridade < SIMILARIDADE_MINIMA; the quotient of the source is the
\* double nearest to num / den, which is SIMILARIDADE_MINIMA itself when
\* num / den = 97 / 100 and lies on the same side of it otherwise
menor_que_minimo(similaridade) ==
    similaridade.num * SIMILARIDADE_MINIMA.den < SIMILARIDADE_MINIMA.num * similaridade.den

\* ------------------------------------------------------------------------
\* contract_clause_validator.py: validar_clausulas
\* ------------------------------------------------------------------------
PALAVRAS_CRITICAS ==
    { <<"m", "u", "l", "t", "a">>, <<"p", "r", "a", "z", "o">>,
      <<"r", "e", "s", "c", "i", "s", "ã", "o">>,
      <<"r", "e", "s", "c", "i", "s", "a", "o">>,
      <<"r", "e", "a", "j", "u", "s", "t", "e">> }

\* _carregar_modelo_base looking for the file before it checks the template
excecao_clausulas_arquivo_primeiro(modelo, arquivo) ==
    IF ~arquivo.existe THEN "FileNotFoundError"
    ELSE IF ~(modelo.t = "str" /\ modelo.nome \in ARQUIVOS_BASE) THEN "ValueError"
    ELSE "nenhuma"

\* the exception _carregar_modelo_base raises, or "nenhuma"
excecao_clausulas(modelo, arquivo) ==
    IF ~(modelo.t = "str" /\ modelo.nome \in ARQUIVOS_BASE) THEN "ValueError"
    ELSE IF ~arquivo.existe THEN "FileNotFoundError"
    ELSE "nenhuma"

\* the loop over clausulas_base.items() from item i on: the markers appended
\* to clausulas_ausentes and to clausulas_alteradas
RECURSIVE comparar_com_base(_, _, _)
comparar_com_base(clausulas_base, clausulas_contrato, i) ==
    IF i > Len(clausulas_base) THEN [ausentes |-> <<>>, alteradas |-> <<>>]
    ELSE LET marcador == clausulas_base[i].marcador
             resto    == comparar_com_base(clausulas_base, clausulas_contrato, i + 1)
         IN  IF marcador \notin Chaves(clausulas_contrato)
             THEN [resto EXCEPT !.ausentes = << marcador >> \o @]
             ELSE IF menor_que_minimo(
                        calcular_similaridade(clausulas_base[i].conteudo,
                                              Valor(clausulas_contrato, marcador)))
             THEN [resto EXCEPT !.alteradas = << marcador >> \o @]
             ELSE resto

\* the loop over clausulas_contrato from item i on: clausulas_extras
RECURSIVE extras_de(_, _, _)
extras_de(clausulas_base, clausulas_contrato, i) ==
    IF i > Len(clausulas_contrato) THEN <<>>
    ELSE (IF clausulas_contrato[i].marcador \notin Chaves(clausulas_base)
          THEN << clausulas_contrato[i].marcador >> ELSE <<>>)
         \o extras_de(clausulas_base, clausulas_contrato, i + 1)

\* dict.get(marcador, "")
ValorOuVazio(d, marcador) == IF marcador \in Chaves(d) THEN Valor(d, marcador) ELSE <<>>

\* the keyword test of _determinar_nivel_risco looking at the contract only
alterada_critica_so_contrato(alteradas, clausulas_base, clausulas_contrato) ==
    \E i \in 1..Len(alteradas) :
        \E palavra \in PALAVRAS_CRITICAS :
            Contains(palavra, LowerSeq(ValorOuVazio(clausulas_contrato, alteradas[i])))

\* some altered marker has a critical keyword in f"{base} {contrato}".lower()
alterada_critica(alteradas, clausulas_base, clausulas_contrato) ==
    \E i \in 1..Len(alteradas) :
        \E palavra \in PALAVRAS_CRITICAS :
            Contains(palavra,
                     LowerSeq(ValorOuVazio(clausulas_base, alteradas[i]) \o << " " >>
                              \o ValorOuVazio(clausulas_contrato, alteradas[i])))

\* ------------------------------------------------------------------------
\* contract_clause_validator.py: the result of validar_clausulas
\* ------------------------------------------------------------------------
\* critica: some altered clause holds a critical keyword
determinar_nivel_risco(alteradas, ausentes, extras, critica) ==
    IF ausentes # <<>> THEN "alto"
    ELSE IF extras # <<>> THEN "alto"
    ELSE IF alteradas # <<>> /\ critica THEN "alto"
    ELSE IF alteradas # <<>> THEN "medio"
    ELSE "baixo"

\* montar_clausulas letting an altered clause invalidate the result
montar_clausulas_alteradas_invalidam(alteradas, ausentes, extras, critica) ==
    [ valido              |-> ausentes = <<>> /\ extras = <<>> /\ alteradas = <<>>,
      clausulas_alteradas |-> alteradas,
      clausulas_ausentes  |-> ausentes,
      clausulas_extras    |-> extras,
      nivel_risco         |-> determinar_nivel_risco(alteradas, ausentes, extras, critica) ]

montar_clausulas(alteradas, ausentes, extras, critica) ==
    [ valido              |-> ausentes = <<>> /\ extras = <<>>,
      clausulas_alteradas |-> alteradas,
      clausulas_ausentes  |-> ausentes,
      clausulas_extras    |-> extras,
      nivel_risco         |-> determinar_nivel_risco(alteradas, ausentes, extras, critica) ]

\* the dict validar_clausulas returns once the base text is loaded
validar_clausulas(texto_base, texto) ==
    LET clausulas_base     == separar_clausulas(texto_base)
        clausulas_contrato == separar_clausulas(texto)
        comparacao == comparar_com_base(clausulas_base, clausulas_contrato, 1)
        extras     == extras_de(clausulas_base, clausulas_contrato, 1)
    IN  montar_clausulas(comparacao.alteradas, comparacao.ausentes, extras,
                         alterada_critica(comparacao.alteradas, clausulas_base,
                                          clausulas_contrato))

SemClausulas == montar_clausulas(<<>>, <<>>, <<>>, FALSE)

\* the results of the validator's own example (base 1,2,3,4, contract
\* 1,2,3,5 with clause 3 altered) and of its variants
ResultadosClausulas ==
    { montar_clausulas(alt, aus, ext, crit) :
        alt \in {<<>>, <<"3">>}, aus \in {<<>>, <<"4">>},
        ext \in {<<>>, <<"5">>}, crit \in BOOLEAN }

\* the keys _render_contrato reads from the pipeline's result
ChavesRenderContrato ==
    {"validacao_campos", "validacao_clausulas", "status_final", "nivel_risco", "modelo"}

\* ------------------------------------------------------------------------
\* Inputs of the field validator
\* ------------------------------------------------------------------------
TextoBom == Str(<<"o", "k">>)

\* a record as the validator's own example "Contrato NOVO - valido" gives it:
\* every required field present and valid, the optional ones null or text
DadosBase ==
    [ c \in CAMPOS_DADOS |->
        CASE c = "alunos_totais"      -> Num(MaxNum)
          [] c = "alunos_gamificados" -> Num(2)
          [] c = "implantacao"        -> Num(1)
          [] c = "saldo_loja"         -> Nulo
          [] OTHER                    -> TextoBom ]

ValoresNumericos ==
    {Nulo, Str(<<"a">>)} \cup { Num(k) : k \in -1..MaxNum }

ValoresUmCampo ==
    { Nulo, Ausente, Lista, Num(3), Num(-1),
      Str(<<>>), Str(<<" ">>), Str(<<" ", "\t", "\n">>),
      Str(<<"a", " ">>),
      Str(<<"{", "{", "a", "}", "}">>),
      Str(<<"a", "_", "_", "_", "_">>),
      Str(<<"X", "x", "X", "x", "X">>),
      Str(<<"_", "_", "_">>),
      Str(<<"a", "}", "}">>),
      Str(<<"x", "x", "x", "x">>) }

\* records whose three numeric fields take every combination of values
DadosNumericos ==
    { [DadosBase EXCEPT !["alunos_totais"] = a,
                        !["alunos_gamificados"] = g,
                        !["implantacao"] = i] :
        a \in ValoresNumericos, g \in ValoresNumericos, i \in ValoresNumericos }

\* records in which one field, required or optional, takes any value
DadosUmCampo ==
    { [DadosBase EXCEPT ![c] = v] : c \in CAMPOS_DADOS, v \in ValoresUmCampo }

Modelo(t, nome) == [t |-> t, nome |-> nome]

\* the values the key "modelo" may hold: a template name, another string,
\* the empty string, None, or a non-string
ValoresModelo ==
    { Modelo("str", m) : m \in ModelosConhecidos \cup {"comercial", "desconhecido", ""} }
    \cup { Modelo("null", ""), Modelo("num", "") }

EntradasCampos ==
    { [modelo |-> Modelo("str", m), e_dict |-> TRUE, dados |-> d] :
        m \in ModelosConhecidos, d \in DadosNumericos \cup DadosUmCampo }
    \cup
    { [modelo |-> m, e_dict |-> b, dados |-> DadosBase] :
        m \in ValoresModelo, b \in BOOLEAN }

\* ------------------------------------------------------------------------
\* Inputs of the reconciliation and of the pipeline
\* ------------------------------------------------------------------------
CamposCrm == {"numero_alunos", "valor_implantacao"}

\* dados_crm = None or {}
CrmVazio == [c \in CamposCrm |-> Ausente]

ValoresCrm ==
    { Ausente, Num(MaxNum), Num(2), Str(<<"2">>), Str(<<"a">>), IntGrande }

DadosCrm ==
    { [numero_alunos |-> a, valor_implantacao |-> i] :
        a \in ValoresCrm, i \in {Ausente, Num(1), Str(<<"R", "$", " ", "1", ",", "0">>)} }

\* contract records for the consolidation: valid ones, ones with a warning,
\* invalid ones
DadosStatus ==
    { [DadosBase EXCEPT !["alunos_totais"] = a, !["cnpj"] = c] :
        a \in {Num(MaxNum), Num(2), Nulo},
        c \in {TextoBom, Str(<<"{", "{", "a", "}", "}">>)} }

EntradasStatus ==
    { [modelo |-> Modelo("str", m), e_dict |-> TRUE, dados |-> d] :
        m \in ModelosConhecidos, d \in DadosStatus }

Textos == { <<>>, <<" ">>, <<"\n", " ", "\t">>, <<"a">>, <<" ", "a", " ">> }

Resposta(tipo, bloco, tem_dados, dados_e_dict, dados) ==
    [ tipo |-> tipo, bloco |-> bloco, tem_dados |-> tem_dados,
      dados_e_dict |-> dados_e_dict, dados |-> dados ]

RespostaFalha == Resposta("falha_api", "nenhum", FALSE, FALSE, DadosBase)

Respostas ==
    { RespostaFalha,
      Resposta("sem_conteudo", "nenhum", FALSE, FALSE, DadosBase),
      Resposta("texto", "nenhum", FALSE, FALSE, DadosBase),
      Resposta("texto", "invalido", FALSE, FALSE, DadosBase),
      Resposta("texto", "objeto", FALSE, FALSE, DadosBase),
      Resposta("texto", "objeto", TRUE, FALSE, DadosBase) }
    \cup { Resposta("texto", "objeto", TRUE, TRUE, d) : d \in DadosUmCampo }

\* the orders in which Python may iterate the set CAMPOS_NUMERICOS
Ordens ==
    { o \in [1..3 -> CAMPOS_NUMERICOS] : \A i, j \in 1..3 : i # j => o[i] # o[j] }

\* ------------------------------------------------------------------------
\* Specification of the field validator: one call of validar_campos_contrato
\* ------------------------------------------------------------------------
\* the variables a specification does not use
SemTexto == texto_contrato = <<>> /\ resposta = RespostaFalha /\ etapas = {}

SemCrm == dados_crm = CrmVazio /\ warnings_crm_contrato = <<>>

\* ------------------------------------------------------------------------
\* contract_parser.py: _parse_json_response
\* ------------------------------------------------------------------------
EspacosJson == {" ", "\n", "\t"}

\* the first position from i on that holds no JSON whitespace
RECURSIVE pular_espacos(_, _)
pular_espacos(x, i) ==
    IF i <= Len(x) /\ x[i] \in EspacosJson THEN pular_espacos(x, i + 1) ELSE i

\* json: a string literal opening at x[i]; the position after its closing
\* quote, 0 when it is not well formed (unterminated, a control character,
\* a backslash before a character that is no escape)
RECURSIVE json_resto_string(_, _)
json_resto_string(x, j) ==
    IF j > Len(x) THEN 0
    ELSE IF x[j] = "\"" THEN j + 1
    ELSE IF x[j] = "\\"
         THEN IF j + 1 <= Len(x) /\ x[j + 1] \in {"\"", "\\", "/", "b", "f", "n", "r", "t"}
              THEN json_resto_string(x, j + 2)
              ELSE 0
    ELSE IF x[j] \in {"\n", "\t"} THEN 0
    ELSE json_resto_string(x, j + 1)

json_string(x, i) ==
    IF i <= Len(x) /\ x[i] = "\"" THEN json_resto_string(x, i + 1) ELSE 0

RECURSIVE json_digitos(_, _)
json_digitos(x, i) ==
    IF i <= Len(x) /\ x[i] \in Digitos THEN json_digitos(x, i + 1) ELSE i

\* json: a number at x[i] (sign, integer part without leading zero,
\* fraction); the position after it, 0 when there is none
json_numero(x, i) ==
    LET j == IF i <= Len(x) /\ x[i] = "-" THEN i + 1 ELSE i
        k == IF j <= Len(x) /\ x[j] = "0" THEN j + 1 ELSE json_digitos(x, j)
    IN  IF k = j THEN 0
        ELSE IF k <= Len(x) /\ x[k] = "."
             THEN IF json_digitos(x, k + 1) = k + 1 THEN 0 ELSE json_digitos(x, k + 1)
             ELSE k

RECURSIVE json_valor(_, _)
RECURSIVE json_membros(_, _)

\* json: an object opening at x[i]
json_objeto(x, i) ==
    LET j == pular_espacos(x, i + 1)
    IN  IF j <= Len(x) /\ x[j] = "}" THEN j + 1 ELSE json_membros(x, j)

\* json: "key": value pairs separated by commas, up to the closing brace
json_membros(x, j) ==
    LET apos_chave == json_string(x, j)
        dois_pontos == pular_espacos(x, apos_chave)
        apos_valor ==
            IF apos_chave # 0 /\ dois_pontos <= Len(x) /\ x[dois_pontos] = ":"
            THEN json_valor(x, pular_espacos(x, dois_pontos + 1))
            ELSE 0
        seguinte == pular_espacos(x, apos_valor)
    IN  IF apos_valor = 0 \/ seguinte > Len(x) THEN 0
        ELSE IF x[seguinte] = "}" THEN seguinte + 1
        ELSE IF x[seguinte] = "," THEN json_membros(x, pular_espacos(x, seguinte + 1))
        ELSE 0

\* json: a value at x[i]: object, string or number (arrays and the
\* literals true, false, null are not in the alphabet of the texts used)
json_valor(x, i) ==
    IF i > Len(x) THEN 0
    ELSE IF x[i] = "{" THEN json_objeto(x, i)
    ELSE IF x[i] = "\"" THEN json_string(x, i)
    ELSE json_numero(x, i)

\* json.loads(candidato): JSONDecodeError, or the value with its type
json_loads(candidato) ==
    LET i   == pular_espacos(candidato, 1)
        fim == json_valor(candidato, i)
    IN  IF fim # 0 /\ pular_espacos(candidato, fim) = Len(candidato) + 1
        THEN [ exc |-> "nenhuma",
               tipo |-> IF candidato[i] = "{" THEN "dict"
                        ELSE IF candidato[i] = "\"" THEN "str" ELSE "num",
               texto |-> candidato ]
        ELSE [ exc |-> "JSONDecodeError", tipo |-> "", texto |-> <<>> ]

\* content.find("{", pos): the first opening brace from pos on, 0 if none
find_chave(c, p) ==
    IF \E i \in p..Len(c) : c[i] = "{"
    THEN CHOOSE i \in p..Len(c) : c[i] = "{" /\ \A j \in p..(i - 1) : c[j] # "{"
    ELSE 0

\* the inner for loop from position i with the depth and flags it has: the
\* position of the brace that brings the depth back to 0, 0 when the text
\* ends first
RECURSIVE varrer(_, _, _, _, _)
varrer(c, i, profundidade, dentro_de_string, escape) ==
    IF i > Len(c) THEN 0
    ELSE IF escape THEN varrer(c, i + 1, profundidade, dentro_de_string, FALSE)
    ELSE IF c[i] = "\\" /\ dentro_de_string
         THEN varrer(c, i + 1, profundidade, dentro_de_string, TRUE)
    ELSE IF c[i] = "\""
         THEN varrer(c, i + 1, profundidade, ~dentro_de_string, FALSE)
    ELSE IF dentro_de_string
         THEN varrer(c, i + 1, profundidade, dentro_de_string, FALSE)
    ELSE IF c[i] = "{"
         THEN varrer(c, i + 1, profundidade + 1, dentro_de_string, FALSE)
    ELSE IF c[i] = "}"
         THEN IF profundidade - 1 = 0 THEN i
              ELSE varrer(c, i + 1, profundidade - 1, dentro_de_string, FALSE)
    ELSE varrer(c, i + 1, profundidade, dentro_de_string, FALSE)

\* the block the scan cuts from the opening brace at ini: <<>> when the
\* text ends before the braces close
bloco_de(c, ini) ==
    IF varrer(c, ini, 0, FALSE, FALSE) = 0 THEN <<>>
    ELSE SubSeq(c, ini, varrer(c, ini, 0, FALSE, FALSE))

\* where the search goes on after the block opened at ini was given up,
\* taken after the end of the block
proxima_posicao_apos_bloco(c, ini) ==
    IF varrer(c, ini, 0, FALSE, FALSE) = 0 THEN ini + 1
    ELSE varrer(c, ini, 0, FALSE, FALSE) + 1

\* pos = inicio + 1
proxima_posicao(c, ini) == ini + 1

SemRetornoJson == [exc |-> "nenhuma", tipo |-> "", texto |-> <<>>]

SemParseJson ==
    /\ content = <<>> /\ pos = 1 /\ candidatos_tentados = <<>>
    /\ retorno_json = SemRetornoJson

\* ------------------------------------------------------------------------
\* crm_pipeline.py and extractor.py
\* ------------------------------------------------------------------------
\* what extrair_texto_arquivo does on a path: it returns the stripped,
\* non-blank text of the file, raises one of the four exceptions it
\* documents, or lets through the OSError of Path.exists() / is_file()
\* (such as ENAMETOOLONG or EACCES)
DesfechosDaExtracao ==
    { "texto", "FileNotFoundError", "ValueError", "RuntimeError", "ImportError",
      "OSError" }

\* except FileNotFoundError / except (ValueError, RuntimeError, ImportError)
ExcecoesCapturadas == {"FileNotFoundError", "ValueError", "RuntimeError", "ImportError"}

\* motivo: a fixed text for FileNotFoundError, str(exc) otherwise
motivo_da_falha(desfecho) ==
    IF desfecho = "FileNotFoundError" THEN "arquivo não encontrado" ELSE desfecho

\* "\n\n".join(partes)
RECURSIVE juntar_partes(_)
juntar_partes(lista) ==
    IF lista = <<>> THEN <<>>
    ELSE IF Len(lista) = 1 THEN lista[1]
    ELSE lista[1] \o << "\n", "\n" >> \o juntar_partes(Tail(lista))

SemCrmPipeline ==
    /\ caminhos_arquivos = <<>> /\ indice_caminho = 1
    /\ partes_extraidas = <<>> /\ sucessos = <<>> /\ falhas = <<>>
    /\ texto_consolidado = <<>> /\ chamadas = {}

\* no ratio computed yet
SemRazao == [num |-> 0, den |-> 0]

\* _to_number not yet called
SemToNumber == arg_valor = Nulo /\ numero = Nenhum

\* ------------------------------------------------------------------------
\* contract_model_detector.py
\* ------------------------------------------------------------------------
\* the keys of MARCADORES, in the order of the dict
MODELOS_COM_MARCADORES == << "novo", "antigo_v13" >>

ANEXO_1 ==
    << "A", "N", "E", "X", "O", " ", "1", " ", "-", " ", "T", "A",
       "B", "E", "L", "A", " ", "R", "E", "S", "U", "M", "O", " ",
       "C", "O", "M", "E", "R", "C", "I", "A", "L" >>
CONTRATO_SAAS ==
    << "C", "O", "N", "T", "R", "A", "T", "O", " ", "D", "E", " ",
       "A", "S", "S", "I", "N", "A", "T", "U", "R", "A", " ", "D",
       "E", " ", "S", "O", "F", "T", "W", "A", "R", "E", " ", "(",
       "S", "a", "a", "S", ")" >>
SALDO_EM_LOJA ==
    << "s", "a", "l", "d", "o", " ", "e", "m", " ", "l", "o", "j",
       "a" >>
CONTRATO_ESCOLAS_V13 ==
    << "C", "o", "n", "t", "r", "a", "t", "o", " ", "E", "s", "c",
       "o", "l", "a", "s", " ", "v", "1", "3" >>

MARCADORES ==
    [ novo       |-> << ANEXO_1, CONTRATO_SAAS >>,
      antigo_v13 |-> << SALDO_EM_LOJA, CONTRATO_ESCOLAS_V13 >> ]

CONFIANCA_ENCONTRADO == [num |-> 95, den |-> 100]
CONFIANCA_AMBIGUO == [num |-> 50, den |-> 100]
CONFIANCA_DESCONHECIDO == [num |-> 0, den |-> 100]

\* a in b, for Python strings
contido_em(a, b) ==
    \E i \in 1..(Len(b) - Len(a) + 1) : SubSeq(b, i, i + Len(a) - 1) = a

\* [marcador for marcador in marcadores if marcador.lower() in texto_lower]
achados(marcadores, texto) ==
    LET achou(marcador) == contido_em(LowerSeq(marcador), LowerSeq(texto))
    IN  SelectSeq(marcadores, achou)

\* encontrados_por_modelo: the templates with a marker in the text, in the
\* order of MARCADORES, each with its markers found
encontrados_por_modelo(texto) ==
    LET tem(modelo) == achados(MARCADORES[modelo], texto) # <<>>
        item(modelo) == [modelo |-> modelo, achados |-> achados(MARCADORES[modelo], texto)]
        modelos == SelectSeq(MODELOS_COM_MARCADORES, tem)
    IN  [i \in 1..Len(modelos) |-> item(modelos[i])]

RECURSIVE marcadores_de(_)
marcadores_de(encontrados) ==
    IF encontrados = <<>> THEN <<>>
    ELSE Head(encontrados).achados \o marcadores_de(Tail(encontrados))

\* the decision taking the first template detected whenever there is one
detectar_modelo_contrato_primeiro(texto) ==
    LET encontrados == encontrados_por_modelo(texto)
    IN  [ modelo |-> IF Len(encontrados) >= 1 THEN encontrados[1].modelo
                     ELSE "desconhecido",
          confianca |-> IF Len(encontrados) >= 1 THEN CONFIANCA_ENCONTRADO
                        ELSE CONFIANCA_DESCONHECIDO,
          marcadores_encontrados |-> marcadores_de(encontrados) ]

detectar_modelo_contrato(texto) ==
    LET encontrados == encontrados_por_modelo(texto)
    IN  [ modelo |-> IF Len(encontrados) = 1 THEN encontrados[1].modelo
                     ELSE "desconhecido",
          confianca |-> IF Len(encontrados) = 1 THEN CONFIANCA_ENCONTRADO
                        ELSE IF Len(encontrados) > 1 THEN CONFIANCA_AMBIGUO
                        ELSE CONFIANCA_DESCONHECIDO,
          marcadores_encontrados |-> marcadores_de(encontrados) ]

SemDeteccao == [modelo |-> "", confianca |-> SemRazao, marcadores_encontrados |-> <<>>]
SemDetector == arg_texto_detector = <<>> /\ deteccao = SemDeteccao

\* no base file, no segmented text
ArquivoAusente == [existe |-> FALSE, texto |-> <<>>]

SemBase == arquivo_base = ArquivoAusente /\ clausulas_separadas = <<>>

\* no text normalised, no similarity computed

SemSimilaridade ==
    /\ arg_texto_a = <<>> /\ arg_texto_b = <<>>
    /\ texto_normalizado = <<>> /\ texto_renormalizado = <<>>
    /\ sim_direta = SemRazao /\ sim_inversa = SemRazao

SemStatus ==
    /\ resultado = SemResultado
    /\ validacao_clausulas = SemClausulas
    /\ status_crm = ""
    /\ status_geral = ""

InitCampos ==
    /\ pc = "inicio"
    /\ SemCrmPipeline
    /\ SemParseJson
    /\ SemToNumber
    /\ SemDetector
    /\ SemSimilaridade
    /\ resultado_parser \in EntradasCampos
    /\ ordem \in Ordens
    /\ validacao_campos = SemValidacao
    /\ excecao = "nenhuma"
    /\ SemTexto /\ SemCrm /\ SemStatus /\ SemBase

ValidarCampos ==
    /\ pc = "inicio"
    /\ pc' = "campos"
    /\ excecao' = excecao_campos(resultado_parser)
    /\ validacao_campos' =
          IF excecao_campos(resultado_parser) = "nenhuma"
          THEN validar_campos_contrato(resultado_parser, ordem)
          ELSE SemValidacao
    /\ UNCHANGED << resultado_parser, ordem, texto_contrato, dados_crm, resposta,
                    etapas, warnings_crm_contrato, resultado,
                    validacao_clausulas, status_crm, status_geral,
                    arquivo_base, clausulas_separadas, vars_similaridade, vars_detector, vars_to_number, vars_parse_json, vars_crm_pipeline >>

NextCampos == ValidarCampos

SpecCampos == InitCampos /\ [][NextCampos]_vars

\* ------------------------------------------------------------------------
\* Properties of the field validator
\* ------------------------------------------------------------------------
\* the call of validar_campos_contrato returned a result
CamposRetornou == pc = "campos" /\ excecao = "nenhuma"

Dados == resultado_parser.dados

\* how many messages of a list satisfy the test
Quantos(msgs, Teste(_)) == Cardinality({ i \in 1..Len(msgs) : Teste(msgs[i]) })

ErrosDoCampo(campo) ==
    LET doCampo(m) == m.campo = campo /\ m.tipo # "gamificados_maior"
    IN  Quantos(validacao_campos.erros_criticos, doCampo)

TemMsg(msgs, tipo) == \E i \in 1..Len(msgs) : msgs[i].tipo = tipo

\* C7: every result of validar_campos_contrato has valido = (erros_criticos
\* is empty), whatever warnings holds.
C7_ValidoIffSemErros ==
    CamposRetornou =>
        (validacao_campos.valido <=> validacao_campos.erros_criticos = <<>>)

\* a returned result that carries warnings and is valid, and so shows that
\* warnings leave valido alone
C7_Witness ==
    /\ CamposRetornou
    /\ validacao_campos.warnings # <<>>
    /\ validacao_campos.valido

\* C8: a required field that is null, empty or whitespace-only gets exactly
\* one critical error, the "missing or empty" one, and no placeholder or
\* numeric error, also when it is a numeric field.
C8_UmErroPorCampoVazio ==
    CamposRetornou =>
        \A i \in 1..Len(CamposContrato) :
            e_vazio(Get(Dados, CamposContrato[i])) =>
                /\ ErrosDoCampo(CamposContrato[i]) = 1
                /\ \A k \in 1..Len(validacao_campos.erros_criticos) :
                      validacao_campos.erros_criticos[k].campo = CamposContrato[i]
                          => validacao_campos.erros_criticos[k].tipo = "ausente"

\* C9: a negative number in a numeric field gets one "negative" error and
\* takes no part in the later comparisons: no gamified-exceeds-total error
\* and no low-count warning for a negative count, no zero warning for a
\* negative implantacao.
NumNegativo(campo) == Get(Dados, campo).t = "num" /\ Get(Dados, campo).n < 0

C9_NegativoExcluido ==
    CamposRetornou =>
        /\ \A campo \in CAMPOS_NUMERICOS :
              NumNegativo(campo) =>
                  /\ ErrosDoCampo(campo) = 1
                  /\ \E k \in 1..Len(validacao_campos.erros_criticos) :
                        validacao_campos.erros_criticos[k] = Msg("negativo", campo)
        /\ (NumNegativo("alunos_totais") \/ NumNegativo("alunos_gamificados"))
              => ~TemMsg(validacao_campos.erros_criticos, "gamificados_maior")
        /\ NumNegativo("alunos_totais")
              => ~TemMsg(validacao_campos.warnings, "alunos_baixo")
        /\ NumNegativo("implantacao")
              => ~TemMsg(validacao_campos.warnings, "implantacao_zerada")

\* a negative alunos_totais beside a non-negative alunos_gamificados, which
\* would exceed it and would be a low count were it compared
C9_Witness ==
    /\ CamposRetornou
    /\ NumNegativo("alunos_totais")
    /\ Get(Dados, "alunos_gamificados").t = "num"
    /\ Get(Dados, "alunos_gamificados").n >= 0
    /\ TemMsg(validacao_campos.erros_criticos, "negativo")

\* C10: with alunos_gamificados and alunos_totais both numeric and
\* non-negative, the cross-field error is added once if gamificados > totais
\* and not at all otherwise (equality accepted); when every other field is
\* valid it is the only critical error and valido is FALSE.
NumNaoNegativo(campo) == Get(Dados, campo).t = "num" /\ Get(Dados, campo).n >= 0

GamificadosExcede ==
    Get(Dados, "alunos_gamificados").n > Get(Dados, "alunos_totais").n

QuantosGamificadosMaior ==
    LET cruzado(m) == m.tipo = "gamificados_maior"
    IN  Quantos(validacao_campos.erros_criticos, cruzado)

\* every required field other than the two counts is present and valid
OutrosCamposValidos ==
    /\ \A i \in 1..Len(CamposContrato) :
          CamposContrato[i] \notin CAMPOS_NUMERICOS =>
              /\ ~e_vazio(Get(Dados, CamposContrato[i]))
              /\ ~contem_placeholder(Get(Dados, CamposContrato[i]))
    /\ NumNaoNegativo("implantacao")

C10_WitnessIgual ==
    /\ CamposRetornou
    /\ NumNaoNegativo("alunos_totais")
    /\ Get(Dados, "alunos_gamificados") = Get(Dados, "alunos_totais")
    /\ QuantosGamificadosMaior = 0

\* C11: the low-count warning is in warnings, once, exactly when
\* alunos_totais is present, numeric, non-negative and at most 5 (5 and 0
\* included, 6 excluded); with or without it valido is TRUE exactly when
\* there is no critical error.
QuantosAlunosBaixo ==
    LET baixo(m) == m = Msg("alunos_baixo", "alunos_totais")
    IN  Quantos(validacao_campos.warnings, baixo)

TotaisBaixo ==
    /\ Dados["alunos_totais"].t = "num"
    /\ Dados["alunos_totais"].n >= 0
    /\ Dados["alunos_totais"].n <= 5

C11_AvisoAlunosBaixo ==
    CamposRetornou =>
        /\ QuantosAlunosBaixo = (IF TotaisBaixo THEN 1 ELSE 0)
        /\ ~TemMsg(validacao_campos.erros_criticos, "alunos_baixo")
        /\ validacao_campos.valido <=> validacao_campos.erros_criticos = <<>>

\* a count of exactly 5 in an otherwise valid record: warned and valid
C11_Witness ==
    /\ CamposRetornou
    /\ Dados["alunos_totais"] = Num(5)
    /\ QuantosAlunosBaixo = 1
    /\ validacao_campos.valido

\* a count of 0 is warned, a count of 6 is not
C11_WitnessZero ==
    /\ CamposRetornou
    /\ Dados["alunos_totais"] = Num(0)
    /\ QuantosAlunosBaixo = 1

C11_WitnessSeis ==
    /\ CamposRetornou
    /\ Dados["alunos_totais"] = Num(6)
    /\ QuantosAlunosBaixo = 0

\* C12: for a known template, a record whose required fields are all present
\* and valid (not empty, no placeholder, the numeric ones numbers >= 0,
\* gamificados <= totais, totais > 5, implantacao # 0) gets valido TRUE with
\* erros_criticos and warnings both empty, whatever the optional fields hold.
EmBranco(valor) ==
    \/ valor.t \in {"null", "absent"}
    \/ valor.t = "str" /\ \A i \in 1..Len(valor.s) : valor.s[i] \in {" ", "\t", "\n"}

TemToken(valor) ==
    /\ valor.t = "str"
    /\ \/ Contains(<<"{", "{">>, valor.s)
       \/ Contains(<<"}", "}">>, valor.s)
       \/ Contains(<<"_", "_", "_", "_">>, valor.s)
       \/ Contains(<<"x", "x", "x", "x", "x">>, LowerSeq(valor.s))

CamposOpcionais == { c \in DOMAIN Dados : \A i \in 1..Len(CamposContrato) : CamposContrato[i] # c }

ObrigatoriosValidos ==
    /\ \A i \in 1..Len(CamposContrato) :
          /\ ~EmBranco(Dados[CamposContrato[i]])
          /\ ~TemToken(Dados[CamposContrato[i]])
    /\ \A campo \in CAMPOS_NUMERICOS : NumNaoNegativo(campo)
    /\ Dados["alunos_gamificados"].n <= Dados["alunos_totais"].n
    /\ Dados["alunos_totais"].n > 5
    /\ Dados["implantacao"].n # 0

C12_WitnessOpcional ==
    /\ CamposRetornou
    /\ ObrigatoriosValidos
    /\ \E c \in CamposOpcionais : TemToken(Dados[c])
    /\ validacao_campos.valido

\* C13: a required field that is a non-empty string containing, whatever the
\* letter case, one of the tokens '{{', '}}', '____', 'xxxxx' gets a
\* placeholder error for that field; a string with none of the tokens and
\* a value that is not a string get none.
QuantosPlaceholder(campo) ==
    LET dele(m) == m = Msg("placeholder", campo)
    IN  Quantos(validacao_campos.erros_criticos, dele)

C13_Placeholder ==
    CamposRetornou =>
        \A i \in 1..Len(CamposContrato) :
            QuantosPlaceholder(CamposContrato[i]) =
                (IF TemToken(Get(Dados, CamposContrato[i])) THEN 1 ELSE 0)

\* the token 'xxxxx' written in mixed case in a required field
C13_Witness ==
    /\ CamposRetornou
    /\ \E i \in 1..Len(CamposContrato) :
          /\ Dados[CamposContrato[i]] = Str(<<"X", "x", "X", "x", "X">>)
          /\ QuantosPlaceholder(CamposContrato[i]) = 1

\* a string one character short of a token, and a value that is no string
C13_WitnessSemToken ==
    /\ CamposRetornou
    /\ \E i \in 1..Len(CamposContrato) :
          /\ Dados[CamposContrato[i]] \in {Str(<<"_", "_", "_">>), Lista}
          /\ QuantosPlaceholder(CamposContrato[i]) = 0

\* C15: validar_campos_contrato is deterministic: any two calls on the same
\* template and record return the same erros_criticos and warnings, message
\* by message in the same order, whichever order the set CAMPOS_NUMERICOS is
\* iterated in by the process that makes the call.
C15_MesmaOrdem ==
    CamposRetornou =>
        \A o \in Ordens :
            /\ validar_campos_contrato(resultado_parser, o).erros_criticos
                  = validacao_campos.erros_criticos
            /\ validar_campos_contrato(resultado_parser, o).warnings
                  = validacao_campos.warnings

\* ------------------------------------------------------------------------
\* Specification of the consolidation: the steps 2 to 4 of the contract
\* pipeline on an extracted record, then the overall status of app.py
\* ------------------------------------------------------------------------
InitStatus ==
    /\ pc = "inicio"
    /\ SemCrmPipeline
    /\ SemParseJson
    /\ SemToNumber
    /\ SemDetector
    /\ SemSimilaridade
    /\ resultado_parser \in EntradasStatus
    /\ ordem \in Ordens
    /\ validacao_campos = SemValidacao
    /\ excecao = "nenhuma"
    /\ SemTexto
    /\ dados_crm \in DadosCrm \cup {CrmVazio}
    /\ warnings_crm_contrato = <<>>
    /\ resultado = SemResultado
    /\ validacao_clausulas \in ResultadosClausulas
    /\ status_crm = ""
    /\ status_geral = ""
    /\ SemBase

CompararCrmContrato ==
    /\ pc = "campos"
    /\ excecao = "nenhuma"
    /\ pc' = "comparado"
    /\ excecao' = excecao_comparar_crm_contrato(dados_crm, resultado_parser.dados)
    /\ warnings_crm_contrato' =
          IF excecao_comparar_crm_contrato(dados_crm, resultado_parser.dados) = "nenhuma"
          THEN comparar_crm_contrato(dados_crm, resultado_parser.dados)
          ELSE <<>>
    /\ UNCHANGED << resultado_parser, ordem, validacao_campos,
                    texto_contrato, dados_crm, resposta, etapas, resultado,
                    validacao_clausulas, status_crm, status_geral,
                    arquivo_base, clausulas_separadas, vars_similaridade, vars_detector, vars_to_number, vars_parse_json, vars_crm_pipeline >>

ConsolidarResultado ==
    /\ pc = "comparado"
    /\ excecao = "nenhuma"
    /\ pc' = "consolidado"
    /\ resultado' = montar_resultado(resultado_parser.dados, validacao_campos,
                                     warnings_crm_contrato)
    /\ UNCHANGED << resultado_parser, ordem, validacao_campos, excecao,
                    texto_contrato, dados_crm, resposta, etapas,
                    warnings_crm_contrato, validacao_clausulas, status_crm,
                    status_geral,
                    arquivo_base, clausulas_separadas, vars_similaridade, vars_detector, vars_to_number, vars_parse_json, vars_crm_pipeline >>

\* the status validar_crm gives
StatusCrm == {"valido", "invalido"}

StatusGeral ==
    /\ pc = "consolidado"
    /\ pc' = "geral"
    /\ \E s \in StatusCrm :
          /\ status_crm' = s
          /\ status_geral' = status_geral_de(s, resultado.status_final)
    /\ UNCHANGED << resultado_parser, ordem, validacao_campos, excecao,
                    texto_contrato, dados_crm, resposta, etapas,
                    warnings_crm_contrato, resultado, validacao_clausulas,
                    arquivo_base, clausulas_separadas, vars_similaridade, vars_detector, vars_to_number, vars_parse_json, vars_crm_pipeline >>

NextStatus ==
    \/ ValidarCampos
    \/ CompararCrmContrato
    \/ ConsolidarResultado
    \/ StatusGeral

SpecStatus == InitStatus /\ [][NextStatus]_vars

\* ------------------------------------------------------------------------
\* Specification of the contract pipeline and of the extraction step
\* ------------------------------------------------------------------------
InitPipeline ==
    /\ pc = "inicio"
    /\ SemCrmPipeline
    /\ SemParseJson
    /\ SemToNumber
    /\ SemDetector
    /\ SemSimilaridade
    /\ resultado_parser = SemParser
    /\ ordem \in Ordens
    /\ validacao_campos = SemValidacao
    /\ excecao = "nenhuma"
    /\ texto_contrato \in Textos
    /\ resposta \in Respostas
    /\ etapas = {}
    /\ dados_crm \in {CrmVazio, [numero_alunos |-> Num(2), valor_implantacao |-> Num(1)]}
    /\ warnings_crm_contrato = <<>>
    /\ SemStatus
    /\ SemBase

\* executar_pipeline_contrato(texto_contrato, dados_crm)
ExecutarPipelineContrato ==
    /\ pc = "inicio"
    /\ pc' = "pipeline"
    /\ LET r == executar_pipeline_contrato(texto_contrato, dados_crm, resposta, ordem)
       IN  /\ excecao' = r.exc
           /\ resultado' = r.ret
           /\ etapas' = r.etapas
    /\ UNCHANGED << resultado_parser, ordem, validacao_campos, texto_contrato,
                    dados_crm, resposta, warnings_crm_contrato,
                    validacao_clausulas, status_crm, status_geral,
                    arquivo_base, clausulas_separadas, vars_similaridade, vars_detector, vars_to_number, vars_parse_json, vars_crm_pipeline >>

\* extrair_dados_contrato(texto_bruto, modelo_detectado), called as the
\* parser's own example calls it
ExtrairDadosContrato ==
    /\ pc = "inicio"
    /\ pc' = "extracao"
    /\ \E m \in ModelosConhecidos :
          LET r == extrair_dados_contrato(texto_contrato, Modelo("str", m), resposta)
          IN  /\ excecao' = r.exc
              /\ resultado_parser' = r.ret
              /\ etapas' = r.etapas
    /\ UNCHANGED << ordem, validacao_campos, texto_contrato, dados_crm, resposta,
                    warnings_crm_contrato, resultado, validacao_clausulas,
                    status_crm, status_geral,
                    arquivo_base, clausulas_separadas, vars_similaridade, vars_detector, vars_to_number, vars_parse_json, vars_crm_pipeline >>

NextPipeline ==
    \/ ExecutarPipelineContrato
    \/ ExtrairDadosContrato

SpecPipeline == InitPipeline /\ [][NextPipeline]_vars

\* ------------------------------------------------------------------------
\* Properties of the pipeline, of the extraction step and of the statuses
\* ------------------------------------------------------------------------
StatusFinais == {"valido", "invalido", "revisao_manual"}

\* the contract text is empty or whitespace-only
TextoEmBranco == \A i \in 1..Len(texto_contrato) : IsSpace(texto_contrato[i])

\* the service answered a text whose first JSON block is an object with a
\* dict "dados" that holds every field with an admissible type
RespostaBemFormada ==
    /\ resposta.tipo = "texto"
    /\ resposta.bloco = "objeto"
    /\ resposta.tem_dados
    /\ resposta.dados_e_dict
    /\ \A c \in CAMPOS_DADOS :
          /\ resposta.dados[c].t # "absent"
          /\ c \in CAMPOS_NUMERICOS => resposta.dados[c].t \in {"null", "num"}
          /\ c \notin CAMPOS_NUMERICOS => resposta.dados[c].t \in {"null", "num", "str"}

\* the service answered a text that is not well formed
RespostaMalformada == resposta.tipo = "texto" /\ ~RespostaBemFormada

\* C1: for a non-empty text and a well-formed extraction answer,
\* executar_pipeline_contrato raises nothing and returns a complete result
\* whose status_final is one of the three statuses, 'invalido' through
\* validacao_campos when a required field is missing or null.
C1_ResultadoCompleto ==
    (pc = "pipeline" /\ ~TextoEmBranco /\ RespostaBemFormada) =>
        /\ excecao = "nenhuma"
        /\ resultado.status_final \in StatusFinais
        /\ (\E i \in 1..Len(CamposContrato) :
                e_vazio(Get(resposta.dados, CamposContrato[i])))
              => /\ ~resultado.validacao_campos.valido
                 /\ resultado.status_final = "invalido"

\* C2: the status of the CRM-reconciliation pipeline is 'invalido' when the
\* field validation is invalid, whatever the warnings; else 'revisao_manual'
\* when a reconciliation warning exists; else 'valido'; and nothing else.
C2_PrecedenciaStatus ==
    pc \in {"consolidado", "geral"} =>
        /\ resultado.status_final \in StatusFinais
        /\ ~validacao_campos.valido => resultado.status_final = "invalido"
        /\ (validacao_campos.valido /\ warnings_crm_contrato # <<>>)
              => resultado.status_final = "revisao_manual"
        /\ (validacao_campos.valido /\ warnings_crm_contrato = <<>>)
              => resultado.status_final = "valido"

\* invalid fields together with a reconciliation warning: 'invalido' wins
C2_Witness ==
    /\ pc = "consolidado"
    /\ ~validacao_campos.valido
    /\ warnings_crm_contrato # <<>>
    /\ resultado.status_final = "invalido"

\* the precedence of the template+clause orchestration
status_variante_a(campos, clausulas) ==
    IF ~campos.valido THEN "invalido"
    ELSE IF clausulas.clausulas_ausentes # <<>> \/ clausulas.clausulas_extras # <<>>
         THEN "invalido"
    ELSE IF clausulas.nivel_risco \in {"medio", "alto"} THEN "revisao_manual"
    ELSE "valido"

\* C3: the orchestrator's status is 'invalido' when the field validation is
\* invalid, else 'invalido' when a clause is missing or extra, else
\* 'revisao_manual' when the risk is medium or high, else 'valido'; and its
\* result carries the keys the presentation layer reads (modelo,
\* validacao_clausulas, nivel_risco beside validacao_campos, status_final).
C3_VarianteA ==
    pc = "consolidado" =>
        /\ resultado.status_final = status_variante_a(validacao_campos, validacao_clausulas)
        /\ ChavesRenderContrato \subseteq DOMAIN resultado

\* C4: on an empty or whitespace-only text executar_pipeline_contrato, and
\* extrair_dados_contrato as well, raise ValueError before any step is
\* performed, and return nothing.
C4_TextoVazioFalhaAntes ==
    (pc \in {"pipeline", "extracao"} /\ TextoEmBranco) =>
        /\ excecao = "ValueError"
        /\ etapas = {}
        /\ resultado.status_final = ""
        /\ ~resultado_parser.e_dict

\* the pipeline called on a whitespace-only text
C4_Witness ==
    /\ pc = "pipeline"
    /\ texto_contrato # <<>>
    /\ TextoEmBranco
    /\ excecao = "ValueError"

\* the kind of exception used for an empty text or an unknown template
ErroDeEntrada == "ValueError"

\* C5 as claimed: a failed call and a malformed answer both surface as a
\* kind of error that is not the input-error kind.
C5_FalhaDeServicoDistinta ==
    (pc = "extracao" /\ ~TextoEmBranco
        /\ (resposta.tipo = "falha_api" \/ RespostaMalformada)) =>
        excecao \notin {"nenhuma", ErroDeEntrada}

\* C5 as amended: extrair_dados_contrato surfaces a failed call as
\* RuntimeError, distinct from the input-error kind, and a malformed answer
\* (no parseable JSON block, no 'dados', 'dados' not a dict, a missing
\* field, a wrong type) as ValueError, the input-error kind itself.
C5_FalhaApiDistinta ==
    (pc = "extracao" /\ ~TextoEmBranco) =>
        /\ resposta.tipo = "falha_api" =>
              excecao = "RuntimeError" /\ excecao # ErroDeEntrada
        /\ RespostaMalformada => excecao = ErroDeEntrada
        /\ RespostaBemFormada => excecao = "nenhuma"

\* a malformed answer surfaced with the input-error kind
C5_Witness ==
    /\ pc = "extracao"
    /\ ~TextoEmBranco
    /\ RespostaMalformada
    /\ resposta.bloco = "objeto"
    /\ excecao = ErroDeEntrada

\* C6: the overall status is 'invalido' when the CRM status is 'invalido',
\* else 'invalido' when the contract status is, else 'revisao_manual' when
\* the contract is in manual review, else 'valido'; so it is 'valido' only
\* when neither is 'invalido' and the contract is not in manual review.
C6_StatusGeral ==
    pc = "geral" =>
        /\ status_crm = "invalido" => status_geral = "invalido"
        /\ (status_crm # "invalido" /\ resultado.status_final = "invalido")
              => status_geral = "invalido"
        /\ (status_crm # "invalido" /\ resultado.status_final = "revisao_manual")
              => status_geral = "revisao_manual"
        /\ (status_crm # "invalido"
              /\ resultado.status_final \notin {"invalido", "revisao_manual"})
              => status_geral = "valido"
        /\ status_geral = "valido" =>
              /\ status_crm # "invalido"
              /\ resultado.status_final \notin {"invalido", "revisao_manual"}

\* an invalid CRM beside a contract in manual review: 'invalido' wins
C6_Witness ==
    /\ pc = "geral"
    /\ status_crm = "invalido"
    /\ resultado.status_final = "revisao_manual"
    /\ status_geral = "invalido"

\* ------------------------------------------------------------------------
\* Inputs of the clause validator and of the segmentation
\* ------------------------------------------------------------------------
\* contract texts number their clauses 1 .. MaxClausulas
MaxClausulas == 3

\* texts for separar_clausulas have up to MaxLinhas lines
MaxLinhas == 3

Digito(m) == << "1", "2", "3", "4", "5", "6", "7", "8", "9" >>[m]

\* the line "m. conteudo\n"
LinhaClausula(m, conteudo) == << Digito(m), ".", " " >> \o conteudo \o << "\n" >>

ConteudoBase == << "a", "b", " ", "c", "d" >>

ConteudoMulta == << "m", "u", "l", "t", "a", " ", "a", "b" >>

\* what a clause of the contract may hold: the base content, the same but
\* for case and spacing, an altered content, contents with a keyword
Conteudos ==
    { ConteudoBase,
      << "A", "B", " ", " ", "c", "d" >>,
      << "a", "b", " ", "c", "e" >>,
      ConteudoMulta,
      << "M", "U", "L", "T", "A", " ", "a", "c" >> }

\* the base files: no clause, one clause, two clauses of which the second
\* has a keyword, two clauses without keyword
TextosBase ==
    { <<>>,
      LinhaClausula(1, ConteudoBase),
      LinhaClausula(1, ConteudoBase) \o LinhaClausula(2, ConteudoMulta),
      LinhaClausula(1, ConteudoBase) \o LinhaClausula(2, ConteudoBase) }

\* contract texts: every clause 1 .. MaxClausulas left out or present
RECURSIVE TextosAte(_)
TextosAte(m) ==
    IF m = 0 THEN { <<>> }
    ELSE { t \o l : t \in TextosAte(m - 1),
                    l \in { <<>> } \cup { LinhaClausula(m, c) : c \in Conteudos } }

TextosContrato == TextosAte(MaxClausulas)

Rep(c, n) == [i \in 1..n |-> c]

\* a base clause of 100 characters and two contract clauses that share 97
\* and 96 of them with it: similarities 0.97 and 0.96
TextoLongoBase == << "1", ".", " " >> \o Rep("a", 97) \o Rep("b", 3)

TextosLongos ==
    { << "1", ".", " " >> \o Rep("a", 97) \o Rep("c", 3),
      << "1", ".", " " >> \o Rep("a", 96) \o Rep("c", 4) }

Arquivo(texto) == [existe |-> TRUE, texto |-> texto]

EntradaClausulas(modelo, e_dict, arquivo, texto) ==
    [ modelo |-> modelo, e_dict |-> e_dict, arquivo |-> arquivo, texto |-> texto ]

EntradasClausulas ==
    { EntradaClausulas(m, TRUE, a, t) :
        m \in ValoresModelo,
        a \in {ArquivoAusente} \cup { Arquivo(b) : b \in TextosBase },
        t \in TextosContrato }
    \cup
    { EntradaClausulas(m, FALSE, a, LinhaClausula(1, ConteudoBase)) :
        m \in ValoresModelo,
        a \in {ArquivoAusente, Arquivo(LinhaClausula(1, ConteudoBase))} }
    \cup
    { EntradaClausulas(Modelo("str", "novo"), TRUE, Arquivo(TextoLongoBase), t) :
        t \in TextosLongos }

\* the lines the texts for separar_clausulas are made of: headings of each
\* shape, tokens that are no heading, text
Linhas ==
    { << "1", ".", " ", "a" >>,
      << "1", ".", "1", " ", "b" >>,
      << "2", ".", " ", "c" >>,
      << "I", "V", ".", " ", "a" >>,
      << "A", ".", " ", "b" >>,
      << "1", ".", "1", ".", "\t", "c" >>,
      << "1", ".", "x" >>,
      << " ", "2", ".", " ", "d" >>,
      << "b", " ", "2", ".", " ", "c" >>,
      << "A", "B", ".", " ", "d" >>,
      << "a", ".", " ", "d" >>,
      << "1", "." >>,
      <<>>,
      << "A", " ", " ", "B" >>,
      << "1", "2", " ", "e" >>,
      << "1", ".", ".", " ", "e" >>,
      << "1", " ", "f" >> }

\* the texts of exactly n lines
RECURSIVE TextosDeLinhas(_)
TextosDeLinhas(n) ==
    IF n = 1 THEN Linhas
    ELSE { t \o << "\n" >> \o l : t \in TextosDeLinhas(n - 1), l \in Linhas }

TextosSeparar == UNION { TextosDeLinhas(n) : n \in 1..MaxLinhas }

\* ------------------------------------------------------------------------
\* Specification of the clause validator: one call of validar_clausulas or
\* of validar_campos_contrato on the same template
\* ------------------------------------------------------------------------
InitClausulas ==
    /\ pc = "inicio"
    /\ SemCrmPipeline
    /\ SemParseJson
    /\ SemToNumber
    /\ SemDetector
    /\ SemSimilaridade
    /\ \E e \in EntradasClausulas :
          /\ resultado_parser = [modelo |-> e.modelo, e_dict |-> e.e_dict, dados |-> DadosBase]
          /\ arquivo_base = e.arquivo
          /\ texto_contrato = e.texto
    /\ ordem = << "alunos_totais", "alunos_gamificados", "implantacao" >>
    /\ validacao_campos = SemValidacao
    /\ excecao = "nenhuma"
    /\ resposta = RespostaFalha /\ etapas = {}
    /\ SemCrm /\ SemStatus
    /\ clausulas_separadas = <<>>

\* validar_clausulas(modelo, texto_contrato, diretorio_base)
ValidarClausulas ==
    /\ pc = "inicio"
    /\ pc' = "clausulas"
    /\ excecao' = excecao_clausulas(resultado_parser.modelo, arquivo_base)
    /\ validacao_clausulas' =
          IF excecao_clausulas(resultado_parser.modelo, arquivo_base) = "nenhuma"
          THEN validar_clausulas(arquivo_base.texto, texto_contrato)
          ELSE validacao_clausulas
    /\ UNCHANGED << resultado_parser, ordem, validacao_campos, texto_contrato,
                    dados_crm, resposta, etapas, warnings_crm_contrato, resultado,
                    status_crm, status_geral, arquivo_base, clausulas_separadas, vars_similaridade, vars_detector, vars_to_number, vars_parse_json, vars_crm_pipeline >>

NextClausulas == ValidarClausulas \/ ValidarCampos

SpecClausulas == InitClausulas /\ [][NextClausulas]_vars

\* ------------------------------------------------------------------------
\* Properties of the clause validator
\* ------------------------------------------------------------------------
\* the template handed to the validators is one of 'novo', 'antigo_v13'
TemplateConhecido ==
    /\ resultado_parser.modelo.t = "str"
    /\ resultado_parser.modelo.nome \in {"novo", "antigo_v13"}

TemplateDesconhecido == resultado_parser.modelo = Modelo("str", "desconhecido")

C14_WitnessClausulas ==
    /\ pc = "clausulas"
    /\ TemplateDesconhecido
    /\ arquivo_base.existe
    /\ excecao = "ValueError"

\* a known template with fields that are no mapping
C14_WitnessNaoDict ==
    /\ pc = "campos"
    /\ TemplateConhecido
    /\ ~resultado_parser.e_dict
    /\ excecao = "ValueError"

\* the call of validar_clausulas returned a result
ClausulasRetornou == pc = "clausulas" /\ excecao = "nenhuma"

MapaBase == separar_clausulas(arquivo_base.texto)

MapaContrato == separar_clausulas(texto_contrato)

Elementos(lista) == { lista[i] : i \in 1..Len(lista) }

SemRepeticao(lista) == Cardinality(Elementos(lista)) = Len(lista)

Alteradas == validacao_clausulas.clausulas_alteradas

Ausentes == validacao_clausulas.clausulas_ausentes

Extras == validacao_clausulas.clausulas_extras

Similaridade(marcador) ==
    calcular_similaridade(Valor(MapaBase, marcador), Valor(MapaContrato, marcador))

\* C16: clausulas_ausentes is exactly the markers of the base map that the
\* contract map lacks, clausulas_extras exactly the markers of the contract
\* map that the base map lacks, clausulas_alteradas exactly the markers of
\* both whose similarity is strictly below 0.97; no marker is listed twice,
\* the three lists are pairwise disjoint, and equal maps leave all three
\* empty.
C16_Classificacao ==
    ClausulasRetornou =>
        /\ Elementos(Ausentes) = Chaves(MapaBase) \ Chaves(MapaContrato)
        /\ Elementos(Extras) = Chaves(MapaContrato) \ Chaves(MapaBase)
        /\ Elementos(Alteradas) =
              { m \in Chaves(MapaBase) \cap Chaves(MapaContrato) :
                    100 * Similaridade(m).num < 97 * Similaridade(m).den }
        /\ SemRepeticao(Ausentes) /\ SemRepeticao(Extras) /\ SemRepeticao(Alteradas)
        /\ Elementos(Ausentes) \cap Elementos(Extras) = {}
        /\ Elementos(Ausentes) \cap Elementos(Alteradas) = {}
        /\ Elementos(Extras) \cap Elementos(Alteradas) = {}
        /\ Elementos(MapaBase) = Elementos(MapaContrato) =>
              Alteradas = <<>> /\ Ausentes = <<>> /\ Extras = <<>>

\* a clause whose similarity to the base is exactly 0.97: not altered
C16_Witness ==
    /\ ClausulasRetornou
    /\ << "1" >> \in Chaves(MapaBase) \cap Chaves(MapaContrato)
    /\ 100 * Similaridade(<< "1" >>).num = 97 * Similaridade(<< "1" >>).den
    /\ Alteradas = <<>>

\* an altered, a missing and an extra clause in one result
C16_WitnessTres ==
    /\ ClausulasRetornou
    /\ Alteradas # <<>> /\ Ausentes # <<>> /\ Extras # <<>>

\* equal maps from texts that differ in case and spacing
C16_WitnessIguais ==
    /\ ClausulasRetornou
    /\ MapaBase # <<>>
    /\ Elementos(MapaBase) = Elementos(MapaContrato)
    /\ arquivo_base.texto # texto_contrato
    /\ validacao_clausulas = montar_clausulas(<<>>, <<>>, <<>>, FALSE)

\* C17: nivel_risco follows the first rule that matches: a missing clause
\* gives 'alto'; else an extra clause gives 'alto'; else an altered marker
\* whose base and contract contents together hold one of multa, prazo,
\* rescisão, rescisao, reajuste gives 'alto'; else an altered marker gives
\* 'medio'; else 'baixo'. So it is 'alto' whenever a clause is missing and
\* 'baixo' exactly when the three lists are empty.
ConteudoConjunto(marcador) ==
    Valor(MapaBase, marcador) \o << " " >> \o Valor(MapaContrato, marcador)

AlteradaComPalavra ==
    \E i \in 1..Len(Alteradas) :
        \E palavra \in PALAVRAS_CRITICAS :
            Contains(palavra, LowerSeq(ConteudoConjunto(Alteradas[i])))

C17_NivelDeRisco ==
    ClausulasRetornou =>
        /\ validacao_clausulas.nivel_risco =
              (IF Ausentes # <<>> THEN "alto"
               ELSE IF Extras # <<>> THEN "alto"
               ELSE IF AlteradaComPalavra THEN "alto"
               ELSE IF Alteradas # <<>> THEN "medio"
               ELSE "baixo")
        /\ Ausentes # <<>> => validacao_clausulas.nivel_risco = "alto"
        /\ validacao_clausulas.nivel_risco = "baixo"
              <=> (Alteradas = <<>> /\ Ausentes = <<>> /\ Extras = <<>>)

\* an altered clause whose keyword stands in the base text only
C17_Witness ==
    /\ ClausulasRetornou
    /\ Ausentes = <<>> /\ Extras = <<>>
    /\ Alteradas = << << "2" >> >>
    /\ Contains(<<"m", "u", "l", "t", "a">>, Valor(MapaBase, << "2" >>))
    /\ ~Contains(<<"m", "u", "l", "t", "a">>, Valor(MapaContrato, << "2" >>))
    /\ validacao_clausulas.nivel_risco = "alto"

\* an altered clause without keyword: 'medio'
C17_WitnessMedio ==
    /\ ClausulasRetornou
    /\ Alteradas # <<>>
    /\ validacao_clausulas.nivel_risco = "medio"

\* a missing clause beside an altered one without keyword: 'alto'
C17_WitnessAusente ==
    /\ ClausulasRetornou
    /\ Ausentes # <<>> /\ Alteradas # <<>> /\ ~AlteradaComPalavra
    /\ validacao_clausulas.nivel_risco = "alto"

\* C18: valido is TRUE exactly when clausulas_ausentes and clausulas_extras
\* are both empty; altered clauses alone leave the result valid, with
\* nivel_risco 'medio' or 'alto'; an invalid result has nivel_risco 'alto'.
C18_ValidoSemAusentesNemExtras ==
    ClausulasRetornou =>
        /\ validacao_clausulas.valido <=> (Ausentes = <<>> /\ Extras = <<>>)
        /\ (Alteradas # <<>> /\ Ausentes = <<>> /\ Extras = <<>>) =>
              /\ validacao_clausulas.valido
              /\ validacao_clausulas.nivel_risco \in {"medio", "alto"}
        /\ ~validacao_clausulas.valido => validacao_clausulas.nivel_risco = "alto"

\* altered clauses only: valid
C18_Witness ==
    /\ ClausulasRetornou
    /\ Alteradas # <<>> /\ Ausentes = <<>> /\ Extras = <<>>
    /\ validacao_clausulas.valido

\* an invalid result
C18_WitnessInvalido ==
    /\ ClausulasRetornou
    /\ ~validacao_clausulas.valido
    /\ validacao_clausulas.nivel_risco = "alto"

\* C19: validar_clausulas raises ValueError for an unrecognized template and
\* FileNotFoundError for a recognized template whose base file is not in
\* the directory; the template is checked first, so an unrecognized
\* template never gets FileNotFoundError; neither case returns a result.
C19_ErrosDeCarga ==
    pc = "clausulas" =>
        /\ ~TemplateConhecido => excecao = "ValueError"
        /\ (TemplateConhecido /\ ~arquivo_base.existe) => excecao = "FileNotFoundError"
        /\ excecao \in {"ValueError", "FileNotFoundError"} =>
              validacao_clausulas = SemClausulas

\* an unrecognized template and no base file: the template error
C19_Witness ==
    /\ pc = "clausulas"
    /\ ~TemplateConhecido
    /\ ~arquivo_base.existe
    /\ excecao = "ValueError"

\* a recognized template and no base file
C19_WitnessArquivo ==
    /\ pc = "clausulas"
    /\ TemplateConhecido
    /\ ~arquivo_base.existe
    /\ excecao = "FileNotFoundError"

\* ------------------------------------------------------------------------
\* Specification of the segmentation: one call of separar_clausulas
\* ------------------------------------------------------------------------
InitSeparar ==
    /\ pc = "inicio"
    /\ SemCrmPipeline
    /\ SemParseJson
    /\ SemToNumber
    /\ SemDetector
    /\ SemSimilaridade
    /\ texto_contrato \in TextosSeparar
    /\ resultado_parser = SemParser
    /\ ordem = << "alunos_totais", "alunos_gamificados", "implantacao" >>
    /\ validacao_campos = SemValidacao
    /\ excecao = "nenhuma"
    /\ resposta = RespostaFalha /\ etapas = {}
    /\ SemCrm /\ SemStatus /\ SemBase

\* separar_clausulas(texto)
SepararClausulas ==
    /\ pc = "inicio"
    /\ pc' = "separado"
    /\ clausulas_separadas' = separar_clausulas(texto_contrato)
    /\ UNCHANGED << resultado_parser, ordem, validacao_campos, excecao,
                    texto_contrato, dados_crm, resposta, etapas,
                    warnings_crm_contrato, resultado, validacao_clausulas,
                    status_crm, status_geral, arquivo_base, vars_similaridade, vars_detector, vars_to_number, vars_parse_json, vars_crm_pipeline >>

NextSeparar == SepararClausulas

SpecSeparar == InitSeparar /\ [][NextSeparar]_vars

\* ------------------------------------------------------------------------
\* Properties of the segmentation
\* ------------------------------------------------------------------------
Branco(c) == c \in {" ", "\t", "\n"}

\* the token that starts at position h: the characters up to the next
\* whitespace character or the end of the text
FimDoToken(h) ==
    IF \E q \in h..Len(texto_contrato) : Branco(texto_contrato[q])
    THEN (CHOOSE q \in h..Len(texto_contrato) :
              /\ Branco(texto_contrato[q])
              /\ \A r \in h..(q - 1) : ~Branco(texto_contrato[r])) - 1
    ELSE Len(texto_contrato)

Token(h) == SubSeq(texto_contrato, h, FimDoToken(h))

\* the marker shapes: Roman numeral characters and a period, one uppercase
\* letter and a period, a dotted path of numbers with or without a period
FormaRomana(w) ==
    /\ Len(w) >= 2
    /\ w[Len(w)] = "."
    /\ \A i \in 1..(Len(w) - 1) : w[i] \in {"I", "V", "X", "L", "C", "D", "M"}

FormaLetra(w) == Len(w) = 2 /\ w[1] \in Maiusculas /\ w[2] = "."

FormaNumerica(w) ==
    /\ Len(w) >= 1
    /\ w[1] \in Digitos
    /\ \A i \in 1..Len(w) : w[i] \in Digitos \cup {"."}
    /\ \A i \in 1..(Len(w) - 1) : ~(w[i] = "." /\ w[i + 1] = ".")

FormaDeMarcador(w) == FormaRomana(w) \/ FormaLetra(w) \/ FormaNumerica(w)

NoInicioDaLinha(h) == h = 1 \/ texto_contrato[h - 1] = "\n"

\* the positions where a heading starts: at a line start, a token of a
\* marker shape with a whitespace character right after it
Titulos ==
    { h \in 1..Len(texto_contrato) :
        /\ NoInicioDaLinha(h)
        /\ FormaDeMarcador(Token(h))
        /\ FimDoToken(h) < Len(texto_contrato) }

\* the positions where a token of a marker shape starts that is no heading
TokensSemTitulo ==
    { h \in 1..Len(texto_contrato) :
        /\ ~Branco(texto_contrato[h])
        /\ h = 1 \/ Branco(texto_contrato[h - 1])
        /\ \E q \in h..FimDoToken(h) : FormaDeMarcador(SubSeq(texto_contrato, h, q))
        /\ h \notin Titulos }

ChaveDoTitulo(h) ==
    IF Token(h)[Len(Token(h))] = "." THEN SubSeq(Token(h), 1, Len(Token(h)) - 1)
    ELSE Token(h)

\* where the next heading starts, or the position after the text
ProximoTitulo(h) ==
    IF \E g \in Titulos : g > h
    THEN CHOOSE g \in Titulos : g > h /\ \A x \in Titulos : x > h => g <= x
    ELSE Len(texto_contrato) + 1

\* the text between the whitespace that ends the heading at h and the next
\* heading, lower-cased, its whitespace runs single spaces, trimmed
ConteudoDoTitulo(h) ==
    normalizar_texto(SubSeq(texto_contrato, FimDoToken(h) + 2, ProximoTitulo(h) - 1))

ChaveUnica(h) == \A g \in Titulos : ChaveDoTitulo(g) = ChaveDoTitulo(h) => g = h

\* C20: separar_clausulas has an entry for each heading, that is for each
\* token at a line start that has a marker shape and is followed by a
\* whitespace character, and for nothing else; its key is the marker without
\* the trailing period and its content the normalized text from the end of
\* the heading to the next heading or the end of the text; with headings of
\* different markers there are as many entries as headings.  A marker-shaped
\* token with no whitespace after it, or not at a line start, gets no entry.
C20_UmaEntradaPorTitulo ==
    pc = "separado" =>
        /\ Chaves(clausulas_separadas) = { ChaveDoTitulo(h) : h \in Titulos }
        /\ \A h \in Titulos :
              ChaveUnica(h) =>
                  Valor(clausulas_separadas, ChaveDoTitulo(h)) = ConteudoDoTitulo(h)
        /\ (\A h \in Titulos : ChaveUnica(h)) =>
              Len(clausulas_separadas) = Cardinality(Titulos)

\* the headings '1.', '1.1', '2.': exactly the keys '1', '1.1', '2'
C20_Witness ==
    /\ pc = "separado"
    /\ texto_contrato = << "1", ".", " ", "a", "\n", "1", ".", "1", " ", "b", "\n",
                           "2", ".", " ", "c" >>
    /\ clausulas_separadas =
          << Item(<< "1" >>, << "a" >>), Item(<< "1", ".", "1" >>, << "b" >>),
             Item(<< "2" >>, << "c" >>) >>

\* a marker-shaped token that is no heading beside a heading
C20_WitnessSemTitulo ==
    /\ pc = "separado"
    /\ TokensSemTitulo # {}
    /\ Cardinality(Titulos) = 1
    /\ Len(clausulas_separadas) = 1

\* a Roman and a single-letter heading
C20_WitnessRomano ==
    /\ pc = "separado"
    /\ Chaves(clausulas_separadas) = { << "I", "V" >>, << "A" >> }

\* C21: when two headings give the same marker once the trailing period is
\* stripped ('1.' and '1'), separar_clausulas keeps one entry for that
\* marker, holding the content of the later heading, and the map has as many
\* entries as there are distinct markers.
UltimoDaChave(h) == \A g \in Titulos : ChaveDoTitulo(g) = ChaveDoTitulo(h) => g <= h

C21_UltimaOcorrenciaVence ==
    pc = "separado" =>
        /\ \A h \in Titulos :
              UltimoDaChave(h) =>
                  Valor(clausulas_separadas, ChaveDoTitulo(h)) = ConteudoDoTitulo(h)
        /\ \A i, j \in 1..Len(clausulas_separadas) :
              clausulas_separadas[i].marcador = clausulas_separadas[j].marcador => i = j
        /\ Len(clausulas_separadas) = Cardinality({ ChaveDoTitulo(h) : h \in Titulos })

\* the headings '1.' and '1' in one text: one entry, the later content
C21_Witness ==
    /\ pc = "separado"
    /\ texto_contrato = << "1", ".", " ", "a", "\n", "1", " ", "f" >>
    /\ clausulas_separadas = << Item(<< "1" >>, << "f" >>) >>

\* three headings of which the first and the last collide: the entry keeps
\* the place of the first and the content of the last
C21_WitnessOrdem ==
    /\ pc = "separado"
    /\ Cardinality(Titulos) = 3
    /\ Len(clausulas_separadas) = 2
    /\ \E h \in Titulos : ~UltimoDaChave(h) /\ ConteudoDoTitulo(h) # Valor(clausulas_separadas, ChaveDoTitulo(h))
    /\ clausulas_separadas[1].marcador = << "1" >>

\* ------------------------------------------------------------------------
\* Specification of the text functions: normalizar_texto applied to a text
\* and to its own result, calcular_similaridade applied to a pair of texts
\* in both orders
\* ------------------------------------------------------------------------
\* texts have up to MaxTexto characters
MaxTexto == 3

TextosSobre(alfabeto) == UNION { [1..k -> alfabeto] : k \in 0..MaxTexto }

TextosNormalizar == TextosSobre({"a", "A", "B", " ", "\n", "\t"})

TextosSimilaridade == TextosSobre({"a", "b", "c"})

\* pairs that differ in case and spacing only, and empty texts
ParesIguais ==
    { << << "A", " ", " ", "b" >>, << "a", "\n", "b" >> >>,
      << << " " >>, <<>> >>,
      << << "a", "b", " " >>, << "A", "B" >> >>,
      << << "a", " ", "b" >>, << "a", "b" >> >> }

InitSimilaridade ==
    /\ pc = "inicio"
    /\ SemCrmPipeline
    /\ SemParseJson
    /\ SemToNumber
    /\ SemDetector
    /\ \/ arg_texto_a \in TextosNormalizar /\ arg_texto_b = <<>>
       \/ arg_texto_a \in TextosSimilaridade /\ arg_texto_b \in TextosSimilaridade
       \/ \E par \in ParesIguais : arg_texto_a = par[1] /\ arg_texto_b = par[2]
    /\ texto_normalizado = <<>> /\ texto_renormalizado = <<>>
    /\ sim_direta = SemRazao /\ sim_inversa = SemRazao
    /\ texto_contrato = <<>>
    /\ resultado_parser = SemParser
    /\ ordem = << "alunos_totais", "alunos_gamificados", "implantacao" >>
    /\ validacao_campos = SemValidacao
    /\ excecao = "nenhuma"
    /\ resposta = RespostaFalha /\ etapas = {}
    /\ SemCrm /\ SemStatus /\ SemBase

OutrasDaSimilaridade ==
    << resultado_parser, ordem, validacao_campos, excecao, texto_contrato,
       dados_crm, resposta, etapas, warnings_crm_contrato, resultado,
       validacao_clausulas, status_crm, status_geral, arquivo_base,
       clausulas_separadas, arg_texto_a, arg_texto_b >>

\* normalizar_texto(texto)
NormalizarTexto ==
    /\ pc = "inicio"
    /\ pc' = "normalizado"
    /\ texto_normalizado' = normalizar_texto(arg_texto_a)
    /\ UNCHANGED << OutrasDaSimilaridade, texto_renormalizado, sim_direta, sim_inversa, vars_detector, vars_to_number, vars_parse_json, vars_crm_pipeline >>

\* normalizar_texto applied to the value it returned
NormalizarDeNovo ==
    /\ pc = "normalizado"
    /\ pc' = "renormalizado"
    /\ texto_renormalizado' = normalizar_texto(texto_normalizado)
    /\ UNCHANGED << OutrasDaSimilaridade, texto_normalizado, sim_direta, sim_inversa, vars_detector, vars_to_number, vars_parse_json, vars_crm_pipeline >>

\* calcular_similaridade(texto_a, texto_b)
CalcularSimilaridade ==
    /\ pc = "inicio"
    /\ pc' = "similaridade"
    /\ sim_direta' = calcular_similaridade(arg_texto_a, arg_texto_b)
    /\ UNCHANGED << OutrasDaSimilaridade, texto_normalizado, texto_renormalizado, sim_inversa, vars_detector, vars_to_number, vars_parse_json, vars_crm_pipeline >>

\* calcular_similaridade(texto_b, texto_a)
CalcularSimilaridadeInversa ==
    /\ pc = "similaridade"
    /\ pc' = "inversa"
    /\ sim_inversa' = calcular_similaridade(arg_texto_b, arg_texto_a)
    /\ UNCHANGED << OutrasDaSimilaridade, texto_normalizado, texto_renormalizado, sim_direta, vars_detector, vars_to_number, vars_parse_json, vars_crm_pipeline >>

NextSimilaridade ==
    \/ NormalizarTexto
    \/ NormalizarDeNovo
    \/ CalcularSimilaridade
    \/ CalcularSimilaridadeInversa

SpecSimilaridade == InitSimilaridade /\ [][NextSimilaridade]_vars

\* ------------------------------------------------------------------------
\* Properties of the text functions
\* ------------------------------------------------------------------------
\* the words of a text: its maximal runs of characters that are no
\* whitespace, in lower case
Palavras(x) ==
    LET espacos  == ReplaceChar(ReplaceChar(x, "\n", " "), "\t", " ")
        naoVazia(w) == w # <<>>
    IN  SelectSeq(Split(LowerSeq(espacos), " "), naoVazia)

\* the words joined by single spaces
RECURSIVE Juntar(_)
Juntar(palavras) ==
    IF palavras = <<>> THEN <<>>
    ELSE IF Len(palavras) = 1 THEN palavras[1]
    ELSE palavras[1] \o << " " >> \o Juntar(Tail(palavras))

C23_SimilaridadeUmSeIguais ==
    pc \in {"similaridade", "inversa"} =>
        /\ sim_direta.den > 0
        /\ 0 <= sim_direta.num /\ sim_direta.num <= sim_direta.den
        /\ sim_direta.num = sim_direta.den
              <=> Juntar(Palavras(arg_texto_a)) = Juntar(Palavras(arg_texto_b))
        /\ arg_texto_a = arg_texto_b => sim_direta.num = sim_direta.den

\* two different texts with the same normalized form: similarity 1.0
C23_Witness ==
    /\ pc = "similaridade"
    /\ arg_texto_a # arg_texto_b
    /\ Juntar(Palavras(arg_texto_a)) # <<>>
    /\ Juntar(Palavras(arg_texto_a)) = Juntar(Palavras(arg_texto_b))
    /\ sim_direta.num = sim_direta.den

\* two empty texts: similarity 1.0
C23_WitnessVazios ==
    /\ pc = "similaridade"
    /\ arg_texto_a = <<>> /\ arg_texto_b = <<>>
    /\ sim_direta = Razao(1, 1)

\* texts with no character in common: similarity 0.0
C23_WitnessZero ==
    /\ pc = "similaridade"
    /\ arg_texto_a # <<>> /\ arg_texto_b # <<>>
    /\ sim_direta.num = 0

\* C24: calcular_similaridade is symmetric: the value for (a, b) equals the
\* value for (b, a).
C24_Simetria ==
    pc = "inversa" =>
        sim_direta.num * sim_inversa.den = sim_inversa.num * sim_direta.den

\* ------------------------------------------------------------------------
\* Specification of the template detector: detectar_modelo_contrato applied
\* to a text made of up to MaxTrechos fragments
\* ------------------------------------------------------------------------
MaxTrechos == 3

\* fragments: markers as configured, in another case, cut short, and filler
Trechos ==
    { ANEXO_1, CONTRATO_SAAS, SALDO_EM_LOJA, CONTRATO_ESCOLAS_V13,
      LowerSeq(ANEXO_1),
      << "S", "A", "L", "D", "O", " ", "E", "M", " ", "L", "O", "J",
       "A" >>,
      << "C", "o", "n", "t", "r", "a", "t", "o", " ", "E", "s", "c",
       "o", "l", "a", "s", " ", "v", "1" >>,
      << "3" >>, << "x", "\n" >> }

RECURSIVE Concatenar(_)
Concatenar(trechos) ==
    IF trechos = <<>> THEN <<>> ELSE Head(trechos) \o Concatenar(Tail(trechos))

TextosDetector ==
    { Concatenar(trechos) : trechos \in UNION { [1..k -> Trechos] : k \in 0..MaxTrechos } }

InitDetector ==
    /\ pc = "inicio"
    /\ SemCrmPipeline
    /\ SemParseJson
    /\ SemToNumber
    /\ arg_texto_detector \in TextosDetector
    /\ deteccao = SemDeteccao
    /\ SemSimilaridade
    /\ texto_contrato = <<>>
    /\ resultado_parser = SemParser
    /\ ordem = << "alunos_totais", "alunos_gamificados", "implantacao" >>
    /\ validacao_campos = SemValidacao
    /\ excecao = "nenhuma"
    /\ resposta = RespostaFalha /\ etapas = {}
    /\ SemCrm /\ SemStatus /\ SemBase

\* detectar_modelo_contrato(texto)
DetectarModeloContrato ==
    /\ pc = "inicio"
    /\ pc' = "detectado"
    /\ deteccao' = detectar_modelo_contrato(arg_texto_detector)
    /\ UNCHANGED << OutrasDaSimilaridade, vars_similaridade, arg_texto_detector, vars_to_number, vars_parse_json, vars_crm_pipeline >>

NextDetector == DetectarModeloContrato

SpecDetector == InitDetector /\ [][NextDetector]_vars

\* ------------------------------------------------------------------------
\* Properties of the template detector
\* ------------------------------------------------------------------------
\* the marker occurs in the text, letter case apart
Ocorre(marcador) ==
    \E i \in 1..Len(arg_texto_detector) :
        /\ i + Len(marcador) - 1 <= Len(arg_texto_detector)
        /\ \A k \in 1..Len(marcador) :
              Lower(arg_texto_detector[i + k - 1]) = Lower(marcador[k])

\* the templates with at least one marker occurring in the text
ModelosComMarcador ==
    { m \in {"novo", "antigo_v13"} :
        \E k \in 1..Len(MARCADORES[m]) : Ocorre(MARCADORES[m][k]) }

TodosOsMarcadores ==
    { MARCADORES[m][k] : m \in {"novo", "antigo_v13"}, k \in 1..2 }

MarcadoresQueOcorrem == { marcador \in TodosOsMarcadores : Ocorre(marcador) }

\* C25: the result of detectar_modelo_contrato is decided by the set of
\* templates with a marker occurring in the text, case-insensitively: one
\* template gives it with confidence 0.95 and its markers found, none gives
\* 'desconhecido' with 0.0 and no marker, several give 'desconhecido' with
\* 0.5 and the markers found of all templates.
C25_DeteccaoPorMarcadores ==
    pc = "detectado" =>
        /\ Elementos(deteccao.marcadores_encontrados) = MarcadoresQueOcorrem
        /\ SemRepeticao(deteccao.marcadores_encontrados)
        /\ Cardinality(ModelosComMarcador) = 1 =>
              /\ deteccao.modelo \in ModelosComMarcador
              /\ deteccao.confianca = [num |-> 95, den |-> 100]
              /\ \A k \in 1..Len(deteccao.marcadores_encontrados) :
                    \E j \in 1..2 :
                        deteccao.marcadores_encontrados[k] = MARCADORES[deteccao.modelo][j]
        /\ Cardinality(ModelosComMarcador) = 0 =>
              /\ deteccao.modelo = "desconhecido"
              /\ deteccao.confianca.num = 0
              /\ deteccao.marcadores_encontrados = <<>>
        /\ Cardinality(ModelosComMarcador) > 1 =>
              /\ deteccao.modelo = "desconhecido"
              /\ deteccao.confianca = [num |-> 50, den |-> 100]

\* markers of both templates, one of them in another letter case
C25_Witness ==
    /\ pc = "detectado"
    /\ Cardinality(ModelosComMarcador) = 2
    /\ ~contido_em(SALDO_EM_LOJA, arg_texto_detector)
    /\ Ocorre(SALDO_EM_LOJA)
    /\ deteccao.modelo = "desconhecido"
    /\ Len(deteccao.marcadores_encontrados) >= 2

\* one template, found by a marker written in another letter case
C25_WitnessUm ==
    /\ pc = "detectado"
    /\ ModelosComMarcador = {"novo"}
    /\ ~contido_em(ANEXO_1, arg_texto_detector)
    /\ deteccao.modelo = "novo"
    /\ deteccao.marcadores_encontrados = << ANEXO_1 >>

\* no marker, although a marker cut short is in the text
C25_WitnessNenhum ==
    /\ pc = "detectado"
    /\ ModelosComMarcador = {}
    /\ arg_texto_detector # <<>>
    /\ deteccao.confianca.num = 0

\* ------------------------------------------------------------------------
\* Specification of the numeric conversion: _to_number applied to a value
\* ------------------------------------------------------------------------
DigitChar(d) == << "0", "1", "2", "3", "4", "5", "6", "7", "8", "9" >>[d + 1]

\* the decimal digits of a natural number
RECURSIVE Algarismos(_)
Algarismos(n) ==
    IF n < 10 THEN << DigitChar(n) >>
    ELSE Algarismos(n \div 10) \o << DigitChar(n % 10) >>

\* digits with a dot before every group of three, from the right
RECURSIVE Agrupado(_)
Agrupado(x) ==
    IF Len(x) <= 3 THEN x
    ELSE Agrupado(SubSeq(x, 1, Len(x) - 3)) \o << "." >> \o SubSeq(x, Len(x) - 2, Len(x))

\* amounts: an integer part and the digits after the decimal separator
Quantias ==
    { [inteiro |-> n, decimais |-> d] :
        n \in {0, 7, 450, 3500},
        d \in { <<>>, << "0", "0" >>, << "5" >>, << "5", "0" >> } }
    \cup { [inteiro |-> 1234567, decimais |-> <<>>] }

ValorDaQuantia(q) ==
    Fracao(q.inteiro * Pow10(Len(q.decimais)) + DigitsVal(q.decimais),
           Pow10(Len(q.decimais)))

Estilos == {"simples", "milhar", "virgula", "milhar_virgula", "ponto"}

\* the styles an amount can be written in
EstiloServe(q, estilo) ==
    IF estilo \in {"simples", "milhar"} THEN q.decimais = <<>>
    ELSE q.decimais # <<>>

Grafia(q, estilo) ==
    CASE estilo = "simples"        -> Algarismos(q.inteiro)
      [] estilo = "milhar"         -> Agrupado(Algarismos(q.inteiro))
      [] estilo = "virgula"        -> Algarismos(q.inteiro) \o << "," >> \o q.decimais
      [] estilo = "milhar_virgula" -> Agrupado(Algarismos(q.inteiro)) \o << "," >> \o q.decimais
      [] estilo = "ponto"          -> Algarismos(q.inteiro) \o << "." >> \o q.decimais

Prefixos == { <<>>, << "R", "$", " " >>, << "R", "$" >>, << " " >> }

GrafiasDe(q) ==
    { prefixo \o Grafia(q, estilo) :
        prefixo \in Prefixos, estilo \in { e \in Estilos : EstiloServe(q, e) } }

\* strings that spell no number
NaoNumericos ==
    { << "a", "b", "c" >>, <<>>, << " " >>, << "R", "$" >>,
      << "1", ".", "2", "3", ".", "4", "5", "6" >>,
      << "1", ",", "5", ",", "0" >>,
      << "3", ".", "5", "0", "0", "." >>,
      << "1", "2", "a" >> }

ValoresToNumber ==
    { Str(g) : g \in UNION { GrafiasDe(q) : q \in Quantias } }
    \cup { Str(x) : x \in NaoNumericos }
    \cup { Num(0), Num(450), Num(MaxNum), Nulo, Lista, IntGrande }

InitToNumber ==
    /\ pc = "inicio"
    /\ SemCrmPipeline
    /\ SemParseJson
    /\ arg_valor \in ValoresToNumber
    /\ numero = Nenhum
    /\ SemDetector
    /\ SemSimilaridade
    /\ resultado_parser = SemParser
    /\ ordem = << "alunos_totais", "alunos_gamificados", "implantacao" >>
    /\ validacao_campos = SemValidacao
    /\ excecao = "nenhuma"
    /\ SemTexto /\ SemCrm /\ SemStatus /\ SemBase

\* _to_number(valor)
ToNumber ==
    /\ pc = "inicio"
    /\ pc' = "convertido"
    /\ excecao' = excecao_to_number(arg_valor)
    /\ numero' = IF excecao_to_number(arg_valor) = "nenhuma"
                 THEN to_number(arg_valor)
                 ELSE Nenhum
    /\ UNCHANGED << resultado_parser, ordem, validacao_campos, texto_contrato,
                    dados_crm, resposta, etapas, warnings_crm_contrato,
                    resultado, validacao_clausulas, status_crm, status_geral,
                    arquivo_base, clausulas_separadas, vars_similaridade,
                    vars_detector, arg_valor, vars_parse_json, vars_crm_pipeline >>

NextToNumber == ToNumber

SpecToNumber == InitToNumber /\ [][NextToNumber]_vars

\* ------------------------------------------------------------------------
\* Properties of the numeric conversion
\* ------------------------------------------------------------------------
ToNumberRetornou == pc = "convertido" /\ excecao = "nenhuma"

\* the value returned is the number k
Vale(k) == numero.def /\ NumIgual(numero, Fracao(k, 1))

\* every spelling of an amount gives the amount, a number gives itself,
\* what spells no number gives None
GrafiasConvertidas ==
    ToNumberRetornou =>
        /\ \A q \in Quantias :
              (arg_valor.t = "str" /\ arg_valor.s \in GrafiasDe(q))
                 => numero.def /\ NumIgual(numero, ValorDaQuantia(q))
        /\ arg_valor.t = "num" => Vale(arg_valor.n)
        /\ arg_valor \in {Nulo, Lista} => ~numero.def
        /\ (arg_valor.t = "str" /\ arg_valor.s \in NaoNumericos) => ~numero.def
        /\ arg_valor = Str(<< "R", "$", " ", "3", ".", "5", "0", "0", ",", "0", "0" >>)
              => Vale(3500)
        /\ arg_valor = Str(<< "3", "5", "0", "0", ",", "0", "0" >>) => Vale(3500)
        /\ arg_valor = Str(<< "3", ".", "5", "0", "0" >>) => Vale(3500)
        /\ arg_valor = Str(<< "1", ".", "2", "3", "4", ".", "5", "6", "7" >>)
              => Vale(1234567)
        /\ arg_valor = Str(<< "3", ".", "5", "0" >>)
              => numero.def /\ NumIgual(numero, Fracao(35, 10))
        /\ arg_valor = Str(<< "4", "5", "0" >>) => Vale(450)

\* C28: _to_number never raises; it gives the same number for the
\* spellings of one amount (currency prefix, spaces, comma as decimal
\* separator with dots for thousands, dots for thousands when every later
\* group has three digits, otherwise one dot as decimal point), returns an
\* int or float as it is, and None for what spells no number, for None and
\* for values that are neither strings nor numbers.
C28_ToNumberSemExcecao ==
    /\ pc = "convertido" => excecao = "nenhuma"
    /\ GrafiasConvertidas

\* the claim's spellings of 3500 converted
C28_WitnessGrafias ==
    /\ ToNumberRetornou
    /\ arg_valor = Str(<< "R", "$", " ", "3", ".", "5", "0", "0", ",", "0", "0" >>)
    /\ Vale(3500)

\* ------------------------------------------------------------------------
\* Specification of the reconciliation: steps 2 and 3 of the contract
\* pipeline on a CRM record and an extracted record
\* ------------------------------------------------------------------------
TresMilEQuinhentos == << "3", ".", "5", "0", "0" >>

AlunosCrm ==
    { Ausente, Nulo, Num(350), Num(420), Num(3500), Str(<< "3", "5", "0" >>),
      Str(TresMilEQuinhentos), Str(<< "a", "b", "c" >>),
      Str(<< "R", "$", " ", "3", ".", "5", "0", "0", ",", "0", "0" >>),
      Str(<< "3", ".", "5", "0" >>), Lista, IntGrande }

AlunosContrato ==
    { Nulo, Num(420), Num(350), Num(3500),
      Str(<< "3", "5", "0", "0", ",", "0", "0" >>), Str(<< "x" >>) }

ImplantacaoCrm == { Ausente, Str(TresMilEQuinhentos), Num(1) }

ImplantacaoContrato == { Nulo, Num(3500), Num(1) }

DadosCrmReconciliar ==
    { [numero_alunos |-> a, valor_implantacao |-> i] :
        a \in AlunosCrm, i \in ImplantacaoCrm }

EntradasReconciliar ==
    { [modelo |-> Modelo("str", "novo"), e_dict |-> TRUE,
       dados |-> [DadosBase EXCEPT !["alunos_totais"] = a, !["implantacao"] = i]] :
        a \in AlunosContrato, i \in ImplantacaoContrato }

InitReconciliar ==
    /\ pc = "inicio"
    /\ SemCrmPipeline
    /\ SemParseJson
    /\ SemToNumber
    /\ SemDetector
    /\ SemSimilaridade
    /\ resultado_parser \in EntradasReconciliar
    /\ ordem = << "alunos_totais", "alunos_gamificados", "implantacao" >>
    /\ validacao_campos = SemValidacao
    /\ excecao = "nenhuma"
    /\ SemTexto
    /\ dados_crm \in DadosCrmReconciliar
    /\ warnings_crm_contrato = <<>>
    /\ SemStatus /\ SemBase

NextReconciliar == ValidarCampos \/ CompararCrmContrato

SpecReconciliar == InitReconciliar /\ [][NextReconciliar]_vars

\* ------------------------------------------------------------------------
\* Properties of the reconciliation
\* ------------------------------------------------------------------------
CompararRetornou == pc = "comparado" /\ excecao = "nenhuma"

ValorCrm(par) == Get(dados_crm, par.campo_crm)

ValorContrato(par) == Get(resultado_parser.dados, par.campo_contrato)

\* both values of the pair are numbers, and different ones
ParDivergente(par) ==
    /\ to_number(ValorCrm(par)).def
    /\ to_number(ValorContrato(par)).def
    /\ ~NumIgual(to_number(ValorCrm(par)), to_number(ValorContrato(par)))

\* how many warnings name the pair
AvisosDoPar(par) ==
    Cardinality({ i \in 1..Len(warnings_crm_contrato) :
                    warnings_crm_contrato[i] = Msg("divergente", par.campo_crm) })

ParAlunos == Comparacoes[1]

ParImplantacao == Comparacoes[2]

\* C26: when comparar_crm_contrato returns, each of the two pairs has one
\* warning if both of its values convert to numbers that differ and none
\* otherwise; there are at most two warnings, none for an empty CRM record,
\* one for 350 against 420 and none for '3.500' against 3500.0.
C26_UmAvisoPorParDivergente ==
    CompararRetornou =>
        /\ \A k \in 1..2 :
              AvisosDoPar(Comparacoes[k]) = IF ParDivergente(Comparacoes[k]) THEN 1 ELSE 0
        /\ Len(warnings_crm_contrato) = AvisosDoPar(ParAlunos) + AvisosDoPar(ParImplantacao)
        /\ Len(warnings_crm_contrato) <= 2
        /\ (\A k \in 1..2 : ValorCrm(Comparacoes[k]) = Nulo) => warnings_crm_contrato = <<>>
        /\ (\A k \in 1..2 :
              \/ ValorCrm(Comparacoes[k]).t \notin {"num", "str"}
              \/ ValorContrato(Comparacoes[k]).t \notin {"num", "str"}
              \/ ValorCrm(Comparacoes[k]) \in { Str(<< "a", "b", "c" >>) }
              \/ ValorContrato(Comparacoes[k]) \in { Str(<< "x" >>) })
              => warnings_crm_contrato = <<>>
        /\ (ValorCrm(ParAlunos) = Num(350) /\ ValorContrato(ParAlunos) = Num(420))
              => AvisosDoPar(ParAlunos) = 1
        /\ (ValorCrm(ParImplantacao) = Str(TresMilEQuinhentos)
              /\ ValorContrato(ParImplantacao) = Num(3500))
              => AvisosDoPar(ParImplantacao) = 0

\* 350 against 420 and '3.500' against 3500.0: exactly one warning
C26_Witness ==
    /\ CompararRetornou
    /\ ValorCrm(ParAlunos) = Num(350) /\ ValorContrato(ParAlunos) = Num(420)
    /\ ValorCrm(ParImplantacao) = Str(TresMilEQuinhentos)
    /\ ValorContrato(ParImplantacao) = Num(3500)
    /\ warnings_crm_contrato = << Msg("divergente", "numero_alunos") >>

\* both pairs diverge: two warnings
C26_WitnessDois ==
    /\ CompararRetornou
    /\ Len(warnings_crm_contrato) = 2

\* a value that is no number on one side: the pair is skipped
C26_WitnessPulado ==
    /\ CompararRetornou
    /\ ValorCrm(ParAlunos) = Str(<< "a", "b", "c" >>)
    /\ ValorContrato(ParAlunos) = Num(420)
    /\ AvisosDoPar(ParAlunos) = 0

\* C27: the reconciliation never raises, a divergence never makes the
\* status 'invalido' (only an invalid field validation does), and with a
\* valid field validation the status is 'valido' whether or not there are
\* reconciliation warnings.
C27_ReconciliacaoNaoBloqueia ==
    /\ pc = "comparado" => excecao = "nenhuma"
    /\ pc \in {"consolidado", "geral"} =>
          /\ resultado.status_final = "invalido" => ~validacao_campos.valido
          /\ validacao_campos.valido => resultado.status_final = "valido"

\* what holds of the status: a divergence on a valid record gives
\* 'revisao_manual', and 'invalido' comes from the field validation only
StatusComDivergencia ==
    pc \in {"consolidado", "geral"} =>
        /\ resultado.status_final = "invalido" <=> ~validacao_campos.valido
        /\ (validacao_campos.valido /\ warnings_crm_contrato # <<>>)
              => resultado.status_final = "revisao_manual"

\* ------------------------------------------------------------------------
\* Specification of the JSON extraction: _parse_json_response on a text
\* made of up to MaxPedacos pieces, one step per iteration of its while
\* loop
\* ------------------------------------------------------------------------
MaxPedacos == 3

\* pieces: braces, a whole object, members with a brace or an escaped
\* quote inside a string literal, a comma, free text, a lone quote, a lone
\* backslash, a member
Pedacos ==
    { << "{" >>,
      << "}" >>,
      << "{", "\"", "a", "\"", ":", "1", "}" >>,
      << "\"", "b", "\"", ":", "\"", "}", "\"" >>,
      << "\"", "c", "\"", ":", "\"", "\\", "\"", "{", "\"" >>,
      << "," >>,
      << "x", " " >>,
      << "\"" >>,
      << "\\" >>,
      << "\"", "a", "\"", ":", "1" >> }

Contents ==
    { Concatenar(pedacos) : pedacos \in UNION { [1..k -> Pedacos] : k \in 0..MaxPedacos } }

InitParseJson ==
    /\ pc = "inicio"
    /\ SemCrmPipeline
    /\ content \in Contents
    /\ pos = 1
    /\ candidatos_tentados = <<>>
    /\ retorno_json = SemRetornoJson
    /\ SemToNumber
    /\ SemDetector
    /\ SemSimilaridade
    /\ resultado_parser = SemParser
    /\ ordem = << "alunos_totais", "alunos_gamificados", "implantacao" >>
    /\ validacao_campos = SemValidacao
    /\ excecao = "nenhuma"
    /\ SemTexto /\ SemCrm /\ SemStatus /\ SemBase

OutrasDoParseJson ==
    << resultado_parser, ordem, validacao_campos, texto_contrato, dados_crm,
       resposta, etapas, warnings_crm_contrato, resultado, validacao_clausulas,
       status_crm, status_geral, arquivo_base, clausulas_separadas,
       vars_similaridade, vars_detector, vars_to_number, content >>

\* one iteration of the while loop that finds an opening brace: the block
\* is returned, given up as invalid, or found unclosed
TentarBloco ==
    /\ pc = "inicio"
    /\ pos <= Len(content)
    /\ find_chave(content, pos) # 0
    /\ LET ini       == find_chave(content, pos)
           candidato == bloco_de(content, ini)
       IN  IF candidato = <<>>
           THEN /\ pos' = proxima_posicao(content, ini)
                /\ UNCHANGED << pc, candidatos_tentados, retorno_json, excecao, vars_crm_pipeline >>
           ELSE /\ candidatos_tentados' = Append(candidatos_tentados, candidato)
                /\ IF json_loads(candidato).exc = "nenhuma"
                   THEN /\ pc' = "retornou"
                        /\ retorno_json' = json_loads(candidato)
                        /\ UNCHANGED << pos, excecao, vars_crm_pipeline >>
                   ELSE /\ pos' = proxima_posicao(content, ini)
                        /\ UNCHANGED << pc, retorno_json, excecao, vars_crm_pipeline >>
    /\ UNCHANGED OutrasDoParseJson

\* the loop ends (pos at the end, or no opening brace left): ValueError
SemBlocoValido ==
    /\ pc = "inicio"
    /\ pos > Len(content) \/ find_chave(content, pos) = 0
    /\ pc' = "retornou"
    /\ excecao' = "ValueError"
    /\ UNCHANGED << pos, candidatos_tentados, retorno_json, vars_crm_pipeline >>
    /\ UNCHANGED OutrasDoParseJson

NextParseJson == TentarBloco \/ SemBlocoValido

SpecParseJson == InitParseJson /\ [][NextParseJson]_vars

\* ------------------------------------------------------------------------
\* Properties of the JSON extraction
\* ------------------------------------------------------------------------
ParseJsonTerminou == pc = "retornou"

\* the positions of the opening braces whose block is closed and is valid
\* JSON
IniciosValidos ==
    { p \in 1..Len(content) :
        /\ content[p] = "{"
        /\ bloco_de(content, p) # <<>>
        /\ json_loads(bloco_de(content, p)).exc = "nenhuma" }

PrimeiroInicioValido ==
    CHOOSE p \in IniciosValidos : \A o \in IniciosValidos : p <= o

ObjetoA == << "{", "\"", "a", "\"", ":", "1", "}" >>
ObjetoComChave == << "{", "\"", "b", "\"", ":", "\"", "}", "\"", "}" >>
ObjetoComAspas == << "{", "\"", "c", "\"", ":", "\"", "\\", "\"", "{", "\"", "}" >>

RetornaBloco(bloco) ==
    excecao = "nenhuma" /\ retorno_json.tipo = "dict" /\ retorno_json.texto = bloco

\* the outcome of _parse_json_response
ResultadoDoParse ==
    /\ pos <= Len(content) + 1
    /\ ParseJsonTerminou =>
          /\ excecao \in {"nenhuma", "ValueError"}
          /\ excecao = "ValueError" <=> IniciosValidos = {}
          /\ excecao = "ValueError" => retorno_json = SemRetornoJson
          /\ excecao = "nenhuma" =>
                RetornaBloco(bloco_de(content, PrimeiroInicioValido))
          /\ content = << "{" >> \o ObjetoA \o << "}" >> => RetornaBloco(ObjetoA)
          /\ content = << "{", "x", " " >> \o ObjetoA => RetornaBloco(ObjetoA)
          /\ content = << "x", " " >> \o ObjetoComChave \o << "}" >>
                => RetornaBloco(ObjetoComChave)
          /\ content = ObjetoComAspas => RetornaBloco(ObjetoComAspas)
          /\ content \in { << "{" >>, << "x", " " >>, <<>>, << "{", "\"", "}" >> }
                => excecao = "ValueError"
          /\ content = << "{", "}", "}" >> => RetornaBloco(<< "{", "}" >>)

\* C29: _parse_json_response terminates: every iteration of its loop that
\* does not return moves the scan position forward, within the text; it
\* ends either returning the mapping parsed from the first block with
\* balanced braces (braces in string literals and escaped quotes apart)
\* that is valid JSON, having tried the later opening braces after an
\* invalid or unclosed block, or raising ValueError when no block parses;
\* what it returns is always a mapping.
C29_PrimeiroBlocoValido ==
    /\ []ResultadoDoParse
    /\ [][(pc = "inicio" /\ pc' = "inicio") => pos' > pos]_vars

\* an invalid balanced block given up, the valid block inside it returned
C29_Witness ==
    /\ ParseJsonTerminou
    /\ content = << "{" >> \o ObjetoA \o << "}" >>
    /\ Len(candidatos_tentados) = 2
    /\ RetornaBloco(ObjetoA)

\* an unclosed block, then the valid one after it
C29_WitnessAberto ==
    /\ ParseJsonTerminou
    /\ content = << "{", "x", " " >> \o ObjetoA
    /\ candidatos_tentados = << ObjetoA >>
    /\ RetornaBloco(ObjetoA)

\* a closing brace inside a string literal does not end the block
C29_WitnessChaveEmString ==
    /\ ParseJsonTerminou
    /\ content = ObjetoComChave
    /\ RetornaBloco(ObjetoComChave)

\* a balanced block that is no JSON, and no other: ValueError
C29_WitnessErro ==
    /\ ParseJsonTerminou
    /\ content = << "{", ",", "}" >>
    /\ candidatos_tentados = << content >>
    /\ excecao = "ValueError"

\* ------------------------------------------------------------------------
\* Specification of the CRM pipeline: executar_pipeline on a list of up to
\* MaxArquivos paths, one step per file of _extrair_textos
\* ------------------------------------------------------------------------
MaxArquivos == 3

Caminhos == {"a.pdf", "b.png"}

\* the text of each file, as the extractor returns it
TextoDoArquivo(caminho) ==
    IF caminho = "a.pdf" THEN << "a" >> ELSE << "b", " ", "c" >>

ListasDeCaminhos == UNION { [1..k -> Caminhos] : k \in 0..MaxArquivos }

InitCrmPipeline ==
    /\ pc = "inicio"
    /\ caminhos_arquivos \in ListasDeCaminhos
    /\ indice_caminho = 1
    /\ partes_extraidas = <<>> /\ sucessos = <<>> /\ falhas = <<>>
    /\ texto_consolidado = <<>> /\ chamadas = {}
    /\ SemParseJson
    /\ SemToNumber
    /\ SemDetector
    /\ SemSimilaridade
    /\ resultado_parser = SemParser
    /\ ordem = << "alunos_totais", "alunos_gamificados", "implantacao" >>
    /\ validacao_campos = SemValidacao
    /\ excecao = "nenhuma"
    /\ SemTexto /\ SemCrm /\ SemStatus /\ SemBase

OutrasDoCrmPipeline ==
    << resultado_parser, ordem, validacao_campos, texto_contrato, dados_crm,
       resposta, etapas, warnings_crm_contrato, resultado, validacao_clausulas,
       status_crm, status_geral, arquivo_base, clausulas_separadas,
       vars_similaridade, vars_detector, vars_to_number, vars_parse_json,
       caminhos_arquivos >>

\* _extrair_textos: one iteration of the for loop
ExtrairTextoDoArquivo ==
    /\ pc = "inicio"
    /\ indice_caminho <= Len(caminhos_arquivos)
    /\ \E desfecho \in DesfechosDaExtracao :
          LET caminho == caminhos_arquivos[indice_caminho]
          IN  IF desfecho = "texto"
              THEN /\ partes_extraidas' = Append(partes_extraidas, TextoDoArquivo(caminho))
                   /\ sucessos' = Append(sucessos, caminho)
                   /\ indice_caminho' = indice_caminho + 1
                   /\ UNCHANGED << pc, falhas, excecao >>
              ELSE IF desfecho \in ExcecoesCapturadas
              THEN /\ falhas' = Append(falhas, << caminho, motivo_da_falha(desfecho) >>)
                   /\ indice_caminho' = indice_caminho + 1
                   /\ UNCHANGED << pc, partes_extraidas, sucessos, excecao >>
              ELSE /\ pc' = "interrompido"
                   /\ excecao' = desfecho
                   /\ UNCHANGED << indice_caminho, partes_extraidas, sucessos, falhas >>
    /\ UNCHANGED << texto_consolidado, chamadas, OutrasDoCrmPipeline >>

\* _extrair_textos: the join and the return
ConsolidarTextos ==
    /\ pc = "inicio"
    /\ indice_caminho > Len(caminhos_arquivos)
    /\ pc' = "extraido"
    /\ texto_consolidado' = juntar_partes(partes_extraidas)
    /\ UNCHANGED << indice_caminho, partes_extraidas, sucessos, falhas, excecao,
                    chamadas, OutrasDoCrmPipeline >>

\* executar_pipeline: the two tests after the extraction
VerificarExtracao ==
    /\ pc = "extraido"
    /\ IF sucessos = <<>> \/ Strip(texto_consolidado) = <<>>
       THEN pc' = "recusado" /\ excecao' = "ValueError"
       ELSE pc' = "verificado" /\ UNCHANGED excecao
    /\ UNCHANGED << indice_caminho, partes_extraidas, sucessos, falhas,
                    texto_consolidado, chamadas, OutrasDoCrmPipeline >>

\* executar_pipeline: extrair_dados_crm, whose ValueError is raised again as
\* ValueError and any other exception as RuntimeError
ChamarExtrairDadosCrm ==
    /\ pc = "verificado"
    /\ chamadas' = chamadas \cup {"extrair_dados_crm"}
    /\ \E desfecho \in {"nenhuma", "ValueError", "RuntimeError"} :
          /\ excecao' = desfecho
          /\ pc' = IF desfecho = "nenhuma" THEN "dados" ELSE "falhou"
    /\ UNCHANGED << indice_caminho, partes_extraidas, sucessos, falhas,
                    texto_consolidado, OutrasDoCrmPipeline >>

\* executar_pipeline: validar_crm, any exception raised again as RuntimeError
ChamarValidarCrm ==
    /\ pc = "dados"
    /\ chamadas' = chamadas \cup {"validar_crm"}
    /\ \E desfecho \in {"nenhuma", "RuntimeError"} :
          /\ excecao' = desfecho
          /\ pc' = IF desfecho = "nenhuma" THEN "retornou" ELSE "falhou"
    /\ UNCHANGED << indice_caminho, partes_extraidas, sucessos, falhas,
                    texto_consolidado, OutrasDoCrmPipeline >>

NextCrmPipeline ==
    \/ ExtrairTextoDoArquivo
    \/ ConsolidarTextos
    \/ VerificarExtracao
    \/ ChamarExtrairDadosCrm
    \/ ChamarValidarCrm

SpecCrmPipeline == InitCrmPipeline /\ [][NextCrmPipeline]_vars

\* ------------------------------------------------------------------------
\* Properties of the CRM pipeline
\* ------------------------------------------------------------------------
ExtracaoRetornou == pc \notin {"inicio", "interrompido"}

\* the paths at the positions of a set, in the order of the input
RECURSIVE CaminhosEm(_, _)
CaminhosEm(posicoes, k) ==
    IF k > Len(caminhos_arquivos) THEN <<>>
    ELSE (IF k \in posicoes THEN << caminhos_arquivos[k] >> ELSE <<>>)
         \o CaminhosEm(posicoes, k + 1)

CaminhosDasFalhas == [i \in 1..Len(falhas) |-> falhas[i][1]]

TextosDe(lista) == [i \in 1..Len(lista) |-> TextoDoArquivo(lista[i])]

\* every position of the input is in exactly one of the two lists, both in
\* input order, and the text is the join of the texts of the successes
ListasDaExtracao ==
    ExtracaoRetornou =>
        /\ \E posicoes \in SUBSET (1..Len(caminhos_arquivos)) :
              /\ sucessos = CaminhosEm(posicoes, 1)
              /\ CaminhosDasFalhas = CaminhosEm((1..Len(caminhos_arquivos)) \ posicoes, 1)
        /\ Len(sucessos) + Len(falhas) = Len(caminhos_arquivos)
        /\ texto_consolidado = juntar_partes(TextosDe(sucessos))

\* no success or a blank text: ValueError, and no service called
RecusaSemTexto ==
    /\ (pc \notin {"inicio", "interrompido", "extraido"}
          /\ (sucessos = <<>> \/ \A i \in 1..Len(texto_consolidado) :
                                     texto_consolidado[i] \in {" ", "\n", "\t"}))
          => pc = "recusado" /\ excecao = "ValueError" /\ chamadas = {}
    /\ chamadas # {} => sucessos # <<>>

\* C30: _extrair_textos goes through every path whatever fails on the way:
\* when it is done every path of the input is in exactly one of sucessos
\* and falhas, both in input order, and the consolidated text is the join
\* of the texts of the successes; executar_pipeline then raises ValueError,
\* calling neither the extraction service nor the validator, when nothing
\* succeeded or the text is blank.
C30_CadaCaminhoEmUmaLista ==
    /\ pc # "interrompido"
    /\ ListasDaExtracao
    /\ RecusaSemTexto

====
